---- MODULE Spec2Model ----
(***************************************************************************)
(* Model of the model-adapter layer of the Model Context Protocol server   *)
(* (src/utils/modelManager.js, first definition of the module, lines       *)
(* 1-242): queryModel builds a provider-shaped payload, issues one HTTP    *)
(* POST, and extracts a completion; mergeContexts folds context data.      *)
(*                                                                         *)
(* JavaScript values are tagged pairs <<tag, value>>:                      *)
(*   <<"undefined","">>  <<"null","">>  <<"boolean","true">>               *)
(*   <<"number","0.7">>  (the decimal literal)                             *)
(*   <<"string","Hi">>                                                     *)
(*   <<"object", <<  <<key, value>>, ... >> >>  (insertion-ordered pairs)  *)
(*   <<"array",  << value, ... >> >>                                       *)
(* and an expression that throws evaluates to <<"throw", message>>.        *)
(***************************************************************************)
EXTENDS Integers, Sequences, FiniteSets, TLC

VARIABLES MODEL_TYPE, calls, invoked, posts, returned, thrown, merged, op,
          file, procs, nextId, began, acknowledged, API_KEY, req

\* The variables of the context store.
storeVars == <<file, procs, nextId, began, acknowledged>>

\* The variables of the HTTP server.
serverVars == <<API_KEY, req>>

vars ==
  <<MODEL_TYPE, calls, invoked, posts, returned, thrown, merged, op,
    storeVars, serverVars>>

\* The variables outside the adapter's query calls and structural merges.
rest == <<op, storeVars, serverVars>>

-----------------------------------------------------------------------------
(* JavaScript values *)

Undefined == <<"undefined", "">>
Null == <<"null", "">>
Str(s) == <<"string", s>>
Num(s) == <<"number", s>>
Bool(s) == <<"boolean", s>>
Obj(pairs) == <<"object", pairs>>
Arr(elems) == <<"array", elems>>
Throw(msg) == <<"throw", msg>>
EmptyObj == Obj(<<>>)

Tag(v) == v[1]
Val(v) == v[2]
IsThrow(v) == Tag(v) = "throw"
IsNullish(v) == Tag(v) \in {"undefined", "null"}

\* ToBoolean: the falsy values are undefined, null, false, 0 and "".
Truthy(v) ==
  CASE Tag(v) \in {"undefined", "null"} -> FALSE
    [] Tag(v) = "boolean" -> Val(v) = "true"
    [] Tag(v) = "number" -> Val(v) # "0"
    [] Tag(v) = "string" -> Val(v) # ""
    [] OTHER -> TRUE

\* a || b : a when a is truthy, else b; a throw in a propagates, b is only
\* evaluated (and may only throw) when a is falsy.
Or(a, b) == IF IsThrow(a) THEN a ELSE IF Truthy(a) THEN a ELSE b

\* a && b : a when a is falsy, else b.
And(a, b) == IF IsThrow(a) THEN a ELSE IF Truthy(a) THEN b ELSE a

-----------------------------------------------------------------------------
(* Objects: ordered key/value pairs with unique keys *)

Keys(o) == [i \in 1..Len(Val(o)) |-> Val(o)[i][1]]
KeySet(o) == {Val(o)[i][1] : i \in 1..Len(Val(o))}
Has(o, k) == k \in KeySet(o)
Lookup(o, k) ==
  IF Has(o, k)
  THEN LET i == CHOOSE j \in 1..Len(Val(o)) : Val(o)[j][1] = k IN Val(o)[i][2]
  ELSE Undefined

\* o[k] = v : an existing key keeps its position, a new key is appended.
SetProp(o, k, v) ==
  IF Has(o, k)
  THEN Obj([i \in 1..Len(Val(o)) |->
             IF Val(o)[i][1] = k THEN <<k, v>> ELSE Val(o)[i]])
  ELSE Obj(Append(Val(o), <<k, v>>))

RECURSIVE AssignPairs(_, _)
AssignPairs(o, pairs) ==
  IF pairs = <<>> THEN o
  ELSE AssignPairs(SetProp(o, Head(pairs)[1], Head(pairs)[2]), Tail(pairs))

\* Mutant of Spread: a key that base already holds keeps base's value.
SpreadKeepExisting(base, src) ==
  IF Tag(src) = "object"
  THEN AssignPairs(base, SelectSeq(Val(src), LAMBDA p : ~Has(base, p[1])))
  ELSE base

\* { ...base, ...src } : own properties of src copied in order over base.
\* Spreading undefined, null, or another primitive without own enumerable
\* properties copies nothing.
Spread(base, src) ==
  IF Tag(src) = "object" THEN AssignPairs(base, Val(src)) ELSE base

\* v.k : property read; reading a property of undefined or null throws.
GetProp(v, k) ==
  CASE IsThrow(v) -> v
    [] Tag(v) = "undefined" ->
         Throw("Cannot read properties of undefined (reading '" \o k \o "')")
    [] Tag(v) = "null" ->
         Throw("Cannot read properties of null (reading '" \o k \o "')")
    [] Tag(v) = "object" -> Lookup(v, k)
    [] OTHER -> Undefined

\* v?.k : undefined when v is undefined or null.
OptProp(v, k) ==
  IF IsThrow(v) THEN v ELSE IF IsNullish(v) THEN Undefined ELSE GetProp(v, k)

\* v[0]
Index0(v) ==
  CASE IsThrow(v) -> v
    [] Tag(v) = "undefined" ->
         Throw("Cannot read properties of undefined (reading '0')")
    [] Tag(v) = "null" ->
         Throw("Cannot read properties of null (reading '0')")
    [] Tag(v) = "array" -> IF Val(v) = <<>> THEN Undefined ELSE Val(v)[1]
    [] Tag(v) = "string" ->
         IF Val(v) = "" THEN Undefined ELSE Str(SubSeq(Val(v), 1, 1))
    [] Tag(v) = "object" -> Lookup(v, "0")
    [] OTHER -> Undefined

-----------------------------------------------------------------------------
(* Strings *)

UpperCase == "ABCDEFGHIJKLMNOPQRSTUVWXYZ"
LowerCase == "abcdefghijklmnopqrstuvwxyz"

LowerChar(ch) ==
  IF \E i \in 1..Len(UpperCase) : SubSeq(UpperCase, i, i) = ch
  THEN LET i == CHOOSE j \in 1..Len(UpperCase) : SubSeq(UpperCase, j, j) = ch
       IN SubSeq(LowerCase, i, i)
  ELSE ch

\* String.prototype.toLowerCase
RECURSIVE ToLowerCase(_)
ToLowerCase(s) ==
  IF s = "" THEN ""
  ELSE LowerChar(SubSeq(s, 1, 1)) \o ToLowerCase(SubSeq(s, 2, Len(s)))

\* s.includes(t)
Includes(s, t) ==
  \E i \in 1..(Len(s) - Len(t) + 1) : SubSeq(s, i, i + Len(t) - 1) = t

\* The escapes JSON.stringify applies inside a string literal.
EscapeChar(ch) ==
  CASE ch = "\"" -> "\\\""
    [] ch = "\\" -> "\\\\"
    [] ch = "\n" -> "\\n"
    [] OTHER -> ch

RECURSIVE EscapeString(_)
EscapeString(s) ==
  IF s = "" THEN ""
  ELSE EscapeChar(SubSeq(s, 1, 1)) \o EscapeString(SubSeq(s, 2, Len(s)))

Quote(s) == "\"" \o EscapeString(s) \o "\""

\* JSON.stringify(v): object members whose value is undefined are left out,
\* an undefined array element is written null.
RECURSIVE JSONstringify(_), StringifyMembers(_, _), StringifyElements(_, _)
JSONstringify(v) ==
  CASE Tag(v) = "string" -> Quote(Val(v))
    [] Tag(v) \in {"number", "boolean"} -> Val(v)
    [] Tag(v) = "null" -> "null"
    [] Tag(v) = "object" -> "{" \o StringifyMembers(Val(v), TRUE) \o "}"
    [] Tag(v) = "array" -> "[" \o StringifyElements(Val(v), TRUE) \o "]"
    [] OTHER -> "undefined"

StringifyMembers(pairs, first) ==
  IF pairs = <<>> THEN ""
  ELSE IF Tag(Head(pairs)[2]) = "undefined"
       THEN StringifyMembers(Tail(pairs), first)
       ELSE (IF first THEN "" ELSE ",")
            \o Quote(Head(pairs)[1]) \o ":" \o JSONstringify(Head(pairs)[2])
            \o StringifyMembers(Tail(pairs), FALSE)

StringifyElements(elems, first) ==
  IF elems = <<>> THEN ""
  ELSE (IF first THEN "" ELSE ",")
       \o (IF Tag(Head(elems)) = "undefined" THEN "null"
           ELSE JSONstringify(Head(elems)))
       \o StringifyElements(Tail(elems), FALSE)

\* The request body as the endpoint receives it: the value that
\* JSON.parse(JSON.stringify(v)) yields.
RECURSIVE Serialized(_), SerializedMembers(_), SerializedElements(_)
Serialized(v) ==
  CASE Tag(v) = "object" -> Obj(SerializedMembers(Val(v)))
    [] Tag(v) = "array" -> Arr(SerializedElements(Val(v)))
    [] OTHER -> v

SerializedMembers(pairs) ==
  IF pairs = <<>> THEN <<>>
  ELSE IF Tag(Head(pairs)[2]) = "undefined"
       THEN SerializedMembers(Tail(pairs))
       ELSE << <<Head(pairs)[1], Serialized(Head(pairs)[2])>> >>
            \o SerializedMembers(Tail(pairs))

SerializedElements(elems) ==
  IF elems = <<>> THEN <<>>
  ELSE << IF Tag(Head(elems)) = "undefined" THEN Null
          ELSE Serialized(Head(elems)) >>
       \o SerializedElements(Tail(elems))

\* `${v}` : the string a template literal interpolates.
TemplateString(v) ==
  CASE Tag(v) \in {"string", "number", "boolean"} -> Val(v)
    [] Tag(v) = "null" -> "null"
    [] Tag(v) = "undefined" -> "undefined"
    [] Tag(v) = "array" -> ""
    [] OTHER -> "[object Object]"

-----------------------------------------------------------------------------
(* Process-wide configuration *)

MODEL_ENDPOINT == "http://localhost:8000/v1/completions"

\* Values of process.env.MODEL_TYPE (undefined: the variable is not set).
EnvModelTypes ==
  {Undefined, Str(""), Str("mistral"), Str("openai"), Str("OpenAI"),
   Str("anthropic"), Str("generic"), Str("llama")}

\* process.env.MODEL_TYPE || 'mistral'
ConfiguredModelType(env) == Or(env, Str("mistral"))

-----------------------------------------------------------------------------
(* queryModel: the payload *)

\* Mutant of ContextJSON: the context is serialized also when it is empty.
ContextJSONAlways(context) == Str(JSONstringify(context))

\* Object.keys(context).length > 0 ? JSON.stringify(context) : undefined
ContextJSON(context) ==
  IF Len(Keys(context)) > 0 THEN Str(JSONstringify(context)) ELSE Undefined

MistralPayload(prompt, context, options) ==
  Spread(Obj(<< <<"prompt", prompt>>,
                <<"model", Or(GetProp(options, "model"), Str("mistral-12b"))>>,
                <<"context", ContextJSON(context)>>,
                <<"max_tokens", Or(GetProp(options, "max_tokens"), Num("500"))>>,
                <<"temperature",
                  Or(GetProp(options, "temperature"), Num("0.7"))>> >>),
         options)

OpenAIMessages(prompt, context) ==
  Arr((IF Len(Keys(context)) > 0
       THEN << Obj(<< <<"role", Str("system")>>,
                      <<"content", Str(JSONstringify(context))>> >>) >>
       ELSE <<>>)
      \o << Obj(<< <<"role", Str("user")>>, <<"content", prompt>> >>) >>)

OpenAIPayload(prompt, context, options) ==
  Spread(Obj(<< <<"model", Or(GetProp(options, "model"), Str("gpt-3.5-turbo"))>>,
                <<"messages", OpenAIMessages(prompt, context)>>,
                <<"max_tokens", Or(GetProp(options, "max_tokens"), Num("500"))>>,
                <<"temperature",
                  Or(GetProp(options, "temperature"), Num("0.7"))>> >>),
         options)

AnthropicPrompt(prompt, context) ==
  Str((IF Len(Keys(context)) > 0
       THEN JSONstringify(context) \o "\n\n" ELSE "")
      \o "Human: " \o TemplateString(prompt) \o "\n\nAssistant:")

AnthropicPayload(prompt, context, options) ==
  Spread(Obj(<< <<"model", Or(GetProp(options, "model"), Str("claude-2"))>>,
                <<"prompt", AnthropicPrompt(prompt, context)>>,
                <<"max_tokens_to_sample",
                  Or(GetProp(options, "max_tokens"), Num("500"))>>,
                <<"temperature",
                  Or(GetProp(options, "temperature"), Num("0.7"))>> >>),
         options)

\* Mutant of DefaultPayload: the generic payload gets the numeric defaults.
DefaultPayloadInjectsDefaults(prompt, context, options) ==
  Spread(Obj(<< <<"prompt", prompt>>, <<"context", context>>,
                <<"max_tokens", Or(GetProp(options, "max_tokens"), Num("500"))>>,
                <<"temperature",
                  Or(GetProp(options, "temperature"), Num("0.7"))>> >>),
         options)

DefaultPayload(prompt, context, options) ==
  Spread(Obj(<< <<"prompt", prompt>>, <<"context", context>> >>), options)

\* Mutant of QueryPayload: an unknown kind is treated as the default kind of
\* the configuration, mistral.
QueryPayloadUnknownAsMistral(modelType, prompt, context, options) ==
  CASE ToLowerCase(Val(modelType)) = "openai" ->
         OpenAIPayload(prompt, context, options)
    [] ToLowerCase(Val(modelType)) = "anthropic" ->
         AnthropicPayload(prompt, context, options)
    [] OTHER -> MistralPayload(prompt, context, options)

\* switch (MODEL_TYPE.toLowerCase()) of the payload
QueryPayload(modelType, prompt, context, options) ==
  CASE ToLowerCase(Val(modelType)) = "mistral" ->
         MistralPayload(prompt, context, options)
    [] ToLowerCase(Val(modelType)) = "openai" ->
         OpenAIPayload(prompt, context, options)
    [] ToLowerCase(Val(modelType)) = "anthropic" ->
         AnthropicPayload(prompt, context, options)
    [] OTHER -> DefaultPayload(prompt, context, options)

-----------------------------------------------------------------------------
(* queryModel: the completion *)

\* response.data.choices && response.data.choices[0].message?.content
ChoiceMessageContent(data) ==
  And(GetProp(data, "choices"),
      OptProp(GetProp(Index0(GetProp(data, "choices")), "message"), "content"))

\* response.data.choices && response.data.choices[0].text
ChoiceText(data) ==
  And(GetProp(data, "choices"),
      GetProp(Index0(GetProp(data, "choices")), "text"))

MistralCompletion(data) ==
  Or(Or(Or(GetProp(data, "response"), GetProp(data, "completion")),
        GetProp(data, "output")),
     Str(""))

OpenAICompletion(data) == Or(ChoiceMessageContent(data), Str(""))

AnthropicCompletion(data) == Or(GetProp(data, "completion"), Str(""))

DefaultCompletion(data) ==
  Or(Or(Or(Or(Or(GetProp(data, "response"), GetProp(data, "completion")),
              ChoiceMessageContent(data)),
           ChoiceText(data)),
        GetProp(data, "output")),
     Str(JSONstringify(data)))

\* switch (MODEL_TYPE.toLowerCase()) of the extraction
ExtractCompletion(modelType, data) ==
  CASE ToLowerCase(Val(modelType)) = "mistral" -> MistralCompletion(data)
    [] ToLowerCase(Val(modelType)) = "openai" -> OpenAICompletion(data)
    [] ToLowerCase(Val(modelType)) = "anthropic" -> AnthropicCompletion(data)
    [] OTHER -> DefaultCompletion(data)

-----------------------------------------------------------------------------
(* Bounds and inputs *)

\* Number of queryModel calls a behaviour makes.
MaxCalls == 2
\* Longest list of contexts handed to mergeContexts.
MaxMerge == 3

\* The single caller of the sequential specification.
Callers == {"caller1"}

Prompts == {Str("Hi"), Str("")}

Contexts ==
  {EmptyObj,
   Obj(<< <<"lang", Str("en")>> >>),
   Obj(<< <<"user", Obj(<< <<"name", Str("A\"b")>> >>)>>,
          <<"n", Num("1")>> >>)}

\* Option maps: every mapping a JSON request body can carry; these cover
\* truthy and falsy overrides of each computed field and unrelated keys.
OptionMaps ==
  {EmptyObj,
   Obj(<< <<"model", Str("m-x")>> >>),
   Obj(<< <<"temperature", Num("0")>> >>),
   Obj(<< <<"max_tokens", Num("64")>>, <<"temperature", Num("0")>>,
          <<"model", Str("")>> >>),
   Obj(<< <<"max_tokens", Num("0")>> >>),
   Obj(<< <<"max_tokens", Num("64")>> >>),
   Obj(<< <<"max_tokens_to_sample", Num("9")>> >>),
   Obj(<< <<"temperature", Null>> >>),
   Obj(<< <<"prompt", Str("P2")>> >>),
   Obj(<< <<"context", Str("c")>> >>),
   Obj(<< <<"messages", Arr(<<>>)>> >>),
   Obj(<< <<"top_p", Num("1")>> >>)}

Choice(pairs) == Arr(<< Obj(pairs) >>)
Message(content) == Obj(<< <<"content", Str(content)>> >>)

\* Bodies of 2xx responses (response.data).
ResponseBodies ==
  {EmptyObj,
   Obj(<< <<"response", Str("R")>> >>),
   Obj(<< <<"response", Str("R")>>, <<"completion", Str("C")>> >>),
   Obj(<< <<"response", Str("")>>, <<"completion", Str("C")>>,
          <<"output", Str("O")>> >>),
   Obj(<< <<"response", Str("")>>, <<"completion", Str("")>>,
          <<"output", Str("")>> >>),
   Obj(<< <<"output", Str("O")>> >>),
   Obj(<< <<"choices", Choice(<< <<"message", Message("M")>>,
                                 <<"text", Str("T")>> >>)>>,
          <<"output", Str("O")>> >>),
   Obj(<< <<"choices", Choice(<< <<"text", Str("T")>> >>)>>,
          <<"output", Str("O")>> >>),
   Obj(<< <<"choices", Choice(<< <<"message", EmptyObj>> >>)>> >>),
   Obj(<< <<"choices", Choice(<< <<"message", Message("")>> >>)>>,
          <<"output", Str("O")>> >>),
   Obj(<< <<"choices", Arr(<<>>)>> >>),
   Obj(<< <<"choices", Arr(<<>>)>>, <<"output", Str("O")>> >>),
   Obj(<< <<"completion", Str("C")>>,
          <<"choices", Choice(<< <<"message", Message("M")>> >>)>> >>)}

\* error.message of a rejected axios.post: no connection, a non-2xx status,
\* a body that cannot be read.
RejectMessages ==
  {"connect ECONNREFUSED 127.0.0.1:8000",
   "Request failed with status code 500",
   "Unexpected token < in JSON at position 0"}

-----------------------------------------------------------------------------
(* queryModel as steps of a call *)

IdleCall ==
  [pc |-> "idle", prompt |-> Undefined, context |-> Undefined,
   options |-> Undefined, request |-> Undefined, attempts |-> 0,
   response |-> <<"none", Undefined>>, result |-> Undefined,
   error |-> Undefined]

\* axios.post(MODEL_ENDPOINT, payload, { headers })
PostRequest(payload) ==
  Obj(<< <<"method", Str("POST")>>, <<"url", Str(MODEL_ENDPOINT)>>,
         <<"data", Serialized(payload)>> >>)

\* Mutant of CatchQueryError: the thrown error does not carry the cause.
CatchQueryErrorDropsCause(call, message) ==
  [call EXCEPT !.pc = "failed", !.error = Str("Model query failed")]

\* Mutant of CatchQueryError: the request is posted again after a failure.
CatchQueryErrorRetries(call, message) ==
  [call EXCEPT !.pc = "awaiting", !.attempts = @ + 1]

\* catch (error) { ... throw new Error(`Model query failed: ${error.message}`) }
CatchQueryError(call, message) ==
  [call EXCEPT !.pc = "failed",
               !.error = Str("Model query failed: " \o message)]

\* The call up to its await: the payload is built and posted.
StartQuery(call, modelType, prompt, context, options) ==
  [call EXCEPT !.pc = "awaiting", !.prompt = prompt, !.context = context,
               !.options = options,
               !.request = PostRequest(QueryPayload(modelType, prompt,
                                                    context, options)),
               !.attempts = @ + 1]

\* The call after a 2xx response: extraction, return { completion }.
FinishQuery(call, modelType, data) ==
  LET completion == ExtractCompletion(modelType, data)
      received == [call EXCEPT !.response = <<"resolved", data>>]
  IN IF IsThrow(completion)
     THEN CatchQueryError(received, Val(completion))
     ELSE [received EXCEPT !.pc = "done",
                           !.result = Obj(<< <<"completion", completion>> >>)]

\* The call after axios.post rejected.
FailQuery(call, message) ==
  CatchQueryError([call EXCEPT !.response = <<"rejected", Str(message)>>],
                  message)

\* The inputs of concurrent calls: different prompts, contexts and options,
\* and responses every kind extracts something else from.
ConcurrentPrompts == {Str("one"), Str("two")}
ConcurrentContexts == {EmptyObj, Obj(<< <<"lang", Str("en")>> >>)}
ConcurrentOptions == {EmptyObj, Obj(<< <<"model", Str("m-x")>> >>)}
ConcurrentBodies ==
  {Obj(<< <<"response", Str("R")>>, <<"completion", Str("C")>> >>),
   Obj(<< <<"choices", Choice(<< <<"message", Message("M")>>,
                                 <<"text", Str("T")>> >>)>>,
          <<"output", Str("O")>> >>)}
ConcurrentRejects == {"Request failed with status code 500"}

\* queryModel(prompt, context, options) up to `await axios.post(...)`.
QueryModelWith(c, prompts, contexts, optionMaps) ==
  /\ calls[c].pc = "idle"
  /\ invoked < MaxCalls
  /\ \E prompt \in prompts, context \in contexts, options \in optionMaps :
       calls' = [calls EXCEPT
                   ![c] = StartQuery(IdleCall, MODEL_TYPE, prompt, context,
                                     options)]
  /\ invoked' = invoked + 1
  /\ posts' = posts + 1
  /\ UNCHANGED <<MODEL_TYPE, returned, thrown, merged, rest>>

QueryModel(c) == QueryModelWith(c, Prompts, Contexts, OptionMaps)

\* Mutant of AxiosResolveWith: one response settles every call in flight.
AxiosResolveCoalesced(c, bodies) ==
  /\ calls[c].pc = "awaiting"
  /\ \E data \in bodies :
       calls' = [d \in DOMAIN calls |->
                   IF calls[d].pc = "awaiting"
                   THEN FinishQuery(calls[d], MODEL_TYPE, data)
                   ELSE calls[d]]
  /\ posts' = posts + (calls'[c].attempts - calls[c].attempts)
  /\ UNCHANGED <<MODEL_TYPE, invoked, returned, thrown, merged, rest>>

\* axios.post resolves with a 2xx response; posts counts every request a
\* call issues.
AxiosResolveWith(c, bodies) ==
  /\ calls[c].pc = "awaiting"
  /\ \E data \in bodies :
       calls' = [calls EXCEPT ![c] = FinishQuery(calls[c], MODEL_TYPE, data)]
  /\ posts' = posts + (calls'[c].attempts - calls[c].attempts)
  /\ UNCHANGED <<MODEL_TYPE, invoked, returned, thrown, merged, rest>>

AxiosResolve(c) == AxiosResolveWith(c, ResponseBodies)

\* axios.post rejects.
AxiosRejectWith(c, messages) ==
  /\ calls[c].pc = "awaiting"
  /\ \E message \in messages :
       calls' = [calls EXCEPT ![c] = FailQuery(calls[c], message)]
  /\ posts' = posts + (calls'[c].attempts - calls[c].attempts)
  /\ UNCHANGED <<MODEL_TYPE, invoked, returned, thrown, merged, rest>>

AxiosReject(c) == AxiosRejectWith(c, RejectMessages)

\* The steps of a call made while other calls may be in flight.
ConcurrentQueryModel(c) ==
  QueryModelWith(c, ConcurrentPrompts, ConcurrentContexts, ConcurrentOptions)
ConcurrentAxiosResolve(c) == AxiosResolveWith(c, ConcurrentBodies)
ConcurrentAxiosReject(c) == AxiosRejectWith(c, ConcurrentRejects)

\* The caller's await completes with the value or the exception.
QueryReturns(c) ==
  /\ calls[c].pc = "done"
  /\ calls' = [calls EXCEPT ![c] = IdleCall]
  /\ returned' = returned + 1
  /\ UNCHANGED <<MODEL_TYPE, invoked, posts, thrown, merged, rest>>

QueryThrows(c) ==
  /\ calls[c].pc = "failed"
  /\ calls' = [calls EXCEPT ![c] = IdleCall]
  /\ thrown' = thrown + 1
  /\ UNCHANGED <<MODEL_TYPE, invoked, posts, returned, merged, rest>>

-----------------------------------------------------------------------------
(* mergeContexts, structural mode *)

\* Stored contexts handed to mergeContexts (contextManager.createContext
\* gives each an id and the data of the request; a context created without
\* data has none). The third holds a nested value and the timestamp key the
\* model routes store with a completion.
StoredContexts ==
  {Obj(<< <<"id", Str("ctx_1")>>,
          <<"data", Obj(<< <<"a", Num("1")>>, <<"b", Num("2")>> >>)>> >>),
   Obj(<< <<"id", Str("ctx_2")>>,
          <<"data", Obj(<< <<"b", Num("3")>>, <<"c", Num("4")>> >>)>> >>),
   Obj(<< <<"id", Str("ctx_3")>>,
          <<"data", Obj(<< <<"b", Obj(<< <<"x", Num("1")>> >>)>>,
                           <<"timestamp", Str("t0")>> >>)>> >>),
   Obj(<< <<"id", Str("ctx_4")>>,
          <<"data", Obj(<< <<"b", Obj(<< <<"y", Num("2")>> >>)>> >>)>> >>),
   Obj(<< <<"id", Str("ctx_5")>> >>)}

ContextLists == UNION {[1..n -> StoredContexts] : n \in 0..MaxMerge}

\* Options of a structural merge: useModel absent or falsy.
StructuralOptions ==
  {EmptyObj,
   Obj(<< <<"useModel", Bool("false")>> >>),
   Obj(<< <<"useModel", Num("0")>>, <<"model", Str("m-x")>> >>)}

\* Mutant of ReduceMerge: the accumulator is spread last, so the earlier
\* context wins a collision.
RECURSIVE ReduceMergeEarlierWins(_, _)
ReduceMergeEarlierWins(acc, contexts) ==
  IF contexts = <<>> THEN acc
  ELSE ReduceMergeEarlierWins(
         Spread(Spread(EmptyObj, Or(GetProp(Head(contexts), "data"), EmptyObj)),
                acc),
         Tail(contexts))

\* contexts.reduce((merged, context) =>
\*   ({ ...merged, ...(context.data || {}) }), {})
RECURSIVE ReduceMerge(_, _)
ReduceMerge(acc, contexts) ==
  IF contexts = <<>> THEN acc
  ELSE ReduceMerge(Spread(Spread(EmptyObj, acc),
                          Or(GetProp(Head(contexts), "data"), EmptyObj)),
                   Tail(contexts))

\* return { data: mergedData }
StructuralMerge(contexts) ==
  Obj(<< <<"data", ReduceMerge(EmptyObj, contexts)>> >>)

NoMerge == [pc |-> "idle", contexts |-> <<>>, options |-> Undefined,
            result |-> Undefined]

\* mergeContexts(contexts, options) with options.useModel falsy.
MergeContextsStructural ==
  \E contexts \in ContextLists, options \in StructuralOptions :
    /\ merged.pc = "idle"
    /\ ~Truthy(GetProp(options, "useModel"))
    /\ merged' = [pc |-> "done", contexts |-> contexts, options |-> options,
                  result |-> StructuralMerge(contexts)]
    /\ UNCHANGED <<MODEL_TYPE, calls, invoked, posts, returned, thrown, rest>>

\* The caller's await completes with { data }.
MergeReturns ==
  /\ merged.pc = "done"
  /\ merged' = NoMerge
  /\ UNCHANGED <<MODEL_TYPE, calls, invoked, posts, returned, thrown, rest>>

-----------------------------------------------------------------------------
(* The operations built on queryModel: processContext, the model-assisted  *)
(* branch of mergeContexts, and summarizeContext.  Each builds one prompt, *)
(* awaits one queryModel(prompt, {}, options), and either wraps the        *)
(* completion or rethrows under its own message.                            *)

\* new Date().toISOString(): the clock is outside the model, one instant
\* stands for every reading.
Timestamp == Str("2024-01-01T00:00:00.000Z")

Tasks == {Str("Summarize the following context."), Str("Extract keywords")}

OperationOptions == {EmptyObj, Obj(<< <<"model", Str("m-x")>> >>)}

\* Options of a model-assisted merge: useModel truthy.
ModelMergeOptions ==
  {Obj(<< <<"useModel", Bool("true")>> >>),
   Obj(<< <<"useModel", Num("1")>>, <<"model", Str("m-x")>> >>)}

\* The context lists handed to a merge operation: every list of up to
\* MaxMerge contexts out of three, one of them without data.
OperationContexts ==
  {ctx \in StoredContexts :
     Lookup(ctx, "id") \in {Str("ctx_1"), Str("ctx_2"), Str("ctx_5")}}

OperationContextLists ==
  UNION {[1..n -> OperationContexts] : n \in 0..MaxMerge}

\* contexts.map(ctx => ctx.data || ctx)
ContextData(contexts) ==
  [i \in 1..Len(contexts) |-> Or(GetProp(contexts[i], "data"), contexts[i])]

\* contexts.map(ctx => ctx.id || 'unknown')
Sources(contexts) ==
  [i \in 1..Len(contexts) |-> Or(GetProp(contexts[i], "id"), Str("unknown"))]

\* `Task: ${task}\nContext: ${JSON.stringify(context.data || context)}`
ProcessPrompt(context, task) ==
  Str("Task: " \o TemplateString(task) \o "\nContext: "
        \o JSONstringify(Or(GetProp(context, "data"), context)))

\* `Task: Merge the following contexts into a single coherent context.\n
\*  Contexts: ${JSON.stringify(contextData)}`
MergePrompt(contexts) ==
  Str("Task: Merge the following contexts into a single coherent context."
        \o "\nContexts: " \o JSONstringify(Arr(ContextData(contexts))))

\* Mutant of SummarizePrompt: a wording of its own.
SummarizePromptOwnWording(context) ==
  Str("Task: Summarize this context.\nContext: "
        \o JSONstringify(Or(GetProp(context, "data"), context)))

\* `Task: Summarize the following context.\n
\*  Context: ${JSON.stringify(context.data || context)}`
SummarizePrompt(context) ==
  Str("Task: Summarize the following context.\nContext: "
        \o JSONstringify(Or(GetProp(context, "data"), context)))

\* processContext's return value.
ProcessResult(context, task, completion) ==
  Obj(<< <<"result", completion>>,
         <<"data", Obj(<< <<"original", Or(GetProp(context, "data"), context)>>,
                          <<"processed", completion>>,
                          <<"task", task>>,
                          <<"timestamp", Timestamp>> >>)>> >>)

\* mergeContexts' return value on the model-assisted branch.
ModelMergeResult(contexts, completion) ==
  Obj(<< <<"data", Obj(<< <<"merged", completion>>,
                          <<"sources", Arr(Sources(contexts))>>,
                          <<"timestamp", Timestamp>> >>)>> >>)

\* summarizeContext's return value.
SummarizeResult(context, completion) ==
  Obj(<< <<"data", Obj(<< <<"original", Or(GetProp(context, "data"), context)>>,
                          <<"summary", completion>>,
                          <<"timestamp", Timestamp>> >>)>> >>)

\* The message each operation's catch block puts before error.message.
FailurePrefix(name) ==
  CASE name = "processContext" -> "Context processing failed: "
    [] name = "mergeContexts" -> "Context merge failed: "
    [] name = "summarizeContext" -> "Context summarization failed: "

NoOp ==
  [pc |-> "idle", name |-> "", contexts |-> <<>>, task |-> Undefined,
   options |-> Undefined, result |-> Undefined, error |-> Undefined]

\* The operation is suspended at `await queryModel(prompt, {}, options)`.
Awaiting(name, contexts, task, options) ==
  [pc |-> "awaiting", name |-> name, contexts |-> contexts, task |-> task,
   options |-> options, result |-> Undefined, error |-> Undefined]

\* The try block after the await: the completion is wrapped.
OperationResult(o, completion) ==
  CASE o.name = "processContext" ->
         ProcessResult(o.contexts[1], o.task, completion)
    [] o.name = "mergeContexts" -> ModelMergeResult(o.contexts, completion)
    [] o.name = "summarizeContext" -> SummarizeResult(o.contexts[1], completion)

\* Mutant of CatchOperationError: the inner error is rethrown as it is.
CatchOperationErrorRethrows(o, error) ==
  [o EXCEPT !.pc = "failed", !.error = error]

\* Mutant of CatchOperationError: a failed model-assisted merge falls back
\* to the structural merge.
CatchOperationErrorFallsBack(o, error) ==
  IF o.name = "mergeContexts"
  THEN [o EXCEPT !.pc = "done", !.result = StructuralMerge(o.contexts)]
  ELSE [o EXCEPT !.pc = "failed",
                 !.error = Str(FailurePrefix(o.name) \o Val(error))]

\* catch (error) { throw new Error(`<Operation> failed: ${error.message}`) }
CatchOperationError(o, error) ==
  [o EXCEPT !.pc = "failed",
            !.error = Str(FailurePrefix(o.name) \o Val(error))]

\* The operation's half of the call: the query it starts.
CallQueryModel(c, prompt, options) ==
  /\ calls[c].pc = "idle"
  /\ invoked < MaxCalls
  /\ calls' = [calls EXCEPT
                 ![c] = StartQuery(IdleCall, MODEL_TYPE, prompt, EmptyObj,
                                   options)]
  /\ invoked' = invoked + 1
  /\ posts' = posts + 1

\* processContext(context, task, options) up to its await.
CallProcessContext(c, context, task, options) ==
  /\ CallQueryModel(c, ProcessPrompt(context, task), options)
  /\ op' = Awaiting("processContext", <<context>>, task, options)

\* Mutant of CallMergeContexts: the model-assisted branch posts once per
\* input context.
CallMergeContextsQueryPerContext(c, contexts, options) ==
  IF ~Truthy(GetProp(options, "useModel"))
  THEN /\ op' = [NoOp EXCEPT !.pc = "done", !.name = "mergeContexts",
                             !.contexts = contexts, !.options = options,
                             !.result = StructuralMerge(contexts)]
       /\ UNCHANGED <<calls, invoked, posts>>
  ELSE /\ calls[c].pc = "idle"
       /\ invoked < MaxCalls
       /\ calls' = [calls EXCEPT
                      ![c] = [StartQuery(IdleCall, MODEL_TYPE,
                                         MergePrompt(contexts), EmptyObj,
                                         options)
                                EXCEPT !.attempts = Len(contexts)]]
       /\ invoked' = invoked + 1
       /\ posts' = posts + Len(contexts)
       /\ op' = Awaiting("mergeContexts", contexts, Undefined, options)

\* mergeContexts(contexts, options): the structural fold when
\* options.useModel is falsy, else one query over all the contexts, up to
\* its await.
CallMergeContexts(c, contexts, options) ==
  IF ~Truthy(GetProp(options, "useModel"))
  THEN /\ op' = [NoOp EXCEPT !.pc = "done", !.name = "mergeContexts",
                             !.contexts = contexts, !.options = options,
                             !.result = StructuralMerge(contexts)]
       /\ UNCHANGED <<calls, invoked, posts>>
  ELSE /\ CallQueryModel(c, MergePrompt(contexts), options)
       /\ op' = Awaiting("mergeContexts", contexts, Undefined, options)

\* summarizeContext(context, options) up to its await.
CallSummarizeContext(c, context, options) ==
  /\ CallQueryModel(c, SummarizePrompt(context), options)
  /\ op' = Awaiting("summarizeContext", <<context>>, Undefined, options)

ProcessContext(c) ==
  /\ op.pc = "idle"
  /\ \E context \in StoredContexts, task \in Tasks,
        options \in OperationOptions :
       CallProcessContext(c, context, task, options)
  /\ UNCHANGED <<MODEL_TYPE, returned, thrown, merged, storeVars, serverVars>>

MergeContexts(c) ==
  /\ op.pc = "idle"
  /\ \E contexts \in OperationContextLists,
        options \in StructuralOptions \cup ModelMergeOptions :
       CallMergeContexts(c, contexts, options)
  /\ UNCHANGED <<MODEL_TYPE, returned, thrown, merged, storeVars, serverVars>>

SummarizeContext(c) ==
  /\ op.pc = "idle"
  /\ \E context \in StoredContexts, options \in OperationOptions :
       CallSummarizeContext(c, context, options)
  /\ UNCHANGED <<MODEL_TYPE, returned, thrown, merged, storeVars, serverVars>>

\* The await settles: queryModel returned { completion } or threw.
OperationResumes(c) ==
  /\ op.pc = "awaiting"
  /\ calls[c].pc \in {"done", "failed"}
  /\ op' = IF calls[c].pc = "done"
           THEN [op EXCEPT !.pc = "done",
                           !.result = OperationResult(
                                        op, GetProp(calls[c].result,
                                                    "completion"))]
           ELSE CatchOperationError(op, calls[c].error)
  /\ returned' = IF calls[c].pc = "done" THEN returned + 1 ELSE returned
  /\ thrown' = IF calls[c].pc = "failed" THEN thrown + 1 ELSE thrown
  /\ UNCHANGED <<MODEL_TYPE, calls, invoked, posts, merged, storeVars,
                 serverVars>>

\* The operation's caller takes the result or the error.
OperationReturns(c) ==
  /\ op.pc \in {"done", "failed"}
  /\ op' = NoOp
  /\ calls' = [calls EXCEPT ![c] = IdleCall]
  /\ UNCHANGED <<MODEL_TYPE, invoked, posts, returned, thrown, merged,
                 storeVars, serverVars>>

-----------------------------------------------------------------------------
(* The context store (src/utils/contextManager.js): one JSON file holding  *)
(* { sessions, contexts, models }; every operation loads the whole file,   *)
(* changes its copy and writes the whole copy back.                        *)

MaxContexts == 2
MaxStoreCalls == 5

\* `ctx_${Date.now()}_${random}`: the n-th identifier generated.
ContextId(n) == "ctx_" \o <<"1", "2", "3", "4", "5", "6", "7", "8", "9">>[n]

\* delete o[k]
DeleteProp(o, k) == Obj(SelectSeq(Val(o), LAMBDA p : p[1] # k))

\* a.push(v); a value without push makes the call throw.
Push(a, v) ==
  IF Tag(a) = "array" THEN Arr(Append(Val(a), v))
  ELSE Throw("db.sessions[sessionId].contexts.push is not a function")

\* a.filter(id => id !== v)
Without(a, v) ==
  IF Tag(a) = "array" THEN Arr(SelectSeq(Val(a), LAMBDA x : x # v))
  ELSE Throw("db.sessions[sessionId].contexts.filter is not a function")

\* What loadContextDb returns when the file is missing or unreadable.
EmptyDb ==
  Obj(<< <<"sessions", EmptyObj>>, <<"contexts", EmptyObj>>,
         <<"models", EmptyObj>> >>)

\* loadContextDb: JSON.parse of the file, the empty database on any error.
LoadContextDb(content) == IF content = Undefined THEN EmptyDb ELSE content

\* saveContextDb: the text written parses back to this value.
SaveContextDb(db) == Serialized(db)

Sessions(db) == Lookup(db, "sessions")
StoredOf(db) == Lookup(db, "contexts")

\* The outcome of an operation's synchronous part on its copy of the
\* database: the copy to save (save = TRUE), and the value returned or the
\* error thrown.
Returns(db, value, save) == [db |-> db, result |-> value, save |-> save]
Throws(db, message) == [db |-> db, result |-> Throw(message), save |-> FALSE]

CreateSession(db, sessionId, metadata) ==
  IF Truthy(Lookup(Sessions(db), sessionId))
  THEN Throws(db, "Session with ID " \o sessionId \o " already exists")
  ELSE LET session == Obj(<< <<"id", Str(sessionId)>>,
                             <<"created", Timestamp>>,
                             <<"updated", Timestamp>>,
                             <<"contexts", Arr(<<>>)>>,
                             <<"metadata", metadata>> >>)
       IN Returns(SetProp(db, "sessions",
                          SetProp(Sessions(db), sessionId, session)),
                  session, TRUE)

GetSession(db, sessionId) ==
  IF ~Truthy(Lookup(Sessions(db), sessionId))
  THEN Throws(db, "Session with ID " \o sessionId \o " not found")
  ELSE Returns(db, Lookup(Sessions(db), sessionId), FALSE)

UpdateSession(db, sessionId, updates) ==
  IF ~Truthy(Lookup(Sessions(db), sessionId))
  THEN Throws(db, "Session with ID " \o sessionId \o " not found")
  ELSE LET session == Lookup(Sessions(db), sessionId)
           \* { ...session, ...updates, updated: <now> }
           updatedSession ==
             SetProp(Spread(Spread(EmptyObj, session), updates),
                     "updated", Timestamp)
       IN Returns(SetProp(db, "sessions",
                          SetProp(Sessions(db), sessionId, updatedSession)),
                  updatedSession, TRUE)

DeleteSession(db, sessionId) ==
  IF ~Truthy(Lookup(Sessions(db), sessionId))
  THEN Throws(db, "Session with ID " \o sessionId \o " not found")
  ELSE Returns(SetProp(db, "sessions", DeleteProp(Sessions(db), sessionId)),
               Undefined, TRUE)

CreateContext(db, sessionId, contextData, contextId) ==
  IF ~Truthy(Lookup(Sessions(db), sessionId))
  THEN Throws(db, "Session with ID " \o sessionId \o " not found")
  ELSE LET context == Obj(<< <<"id", Str(contextId)>>,
                             <<"sessionId", Str(sessionId)>>,
                             <<"created", Timestamp>>,
                             <<"updated", Timestamp>>,
                             <<"data", contextData>> >>)
           session == Lookup(Sessions(db), sessionId)
           pushed == Push(Lookup(session, "contexts"), Str(contextId))
       IN IF IsThrow(pushed) THEN Throws(db, Val(pushed))
          ELSE Returns(
                 SetProp(SetProp(db, "contexts",
                                 SetProp(StoredOf(db), contextId, context)),
                         "sessions",
                         SetProp(Sessions(db), sessionId,
                                 SetProp(SetProp(session, "contexts", pushed),
                                         "updated", Timestamp))),
                 context, TRUE)

GetContext(db, contextId) ==
  IF ~Truthy(Lookup(StoredOf(db), contextId))
  THEN Throws(db, "Context with ID " \o contextId \o " not found")
  ELSE Returns(db, Lookup(StoredOf(db), contextId), FALSE)

UpdateContext(db, contextId, updates) ==
  IF ~Truthy(Lookup(StoredOf(db), contextId))
  THEN Throws(db, "Context with ID " \o contextId \o " not found")
  ELSE LET context == Lookup(StoredOf(db), contextId)
           \* { ...context, data: { ...context.data, ...(updates.data || {}) },
           \*   updated: <now> }
           updatedContext ==
             SetProp(SetProp(Spread(EmptyObj, context), "data",
                             Spread(Spread(EmptyObj, Lookup(context, "data")),
                                    Or(GetProp(updates, "data"), EmptyObj))),
                     "updated", Timestamp)
       IN Returns(SetProp(db, "contexts",
                          SetProp(StoredOf(db), contextId, updatedContext)),
                  updatedContext, TRUE)

DeleteContext(db, contextId) ==
  IF ~Truthy(Lookup(StoredOf(db), contextId))
  THEN Throws(db, "Context with ID " \o contextId \o " not found")
  ELSE LET context == Lookup(StoredOf(db), contextId)
           sessionId == Val(Lookup(context, "sessionId"))
           session == Lookup(Sessions(db), sessionId)
           filtered == Without(Lookup(session, "contexts"), Str(contextId))
           unlisted ==
             IF Truthy(session)
             THEN SetProp(db, "sessions",
                          SetProp(Sessions(db), sessionId,
                                  SetProp(SetProp(session, "contexts", filtered),
                                          "updated", Timestamp)))
             ELSE db
       IN IF Truthy(session) /\ IsThrow(filtered)
          THEN Throws(db, Val(filtered))
          ELSE Returns(SetProp(unlisted, "contexts",
                               DeleteProp(StoredOf(db), contextId)),
                       Undefined, TRUE)

\* The requests made of the store.
SessionIds == {"s1", "s2"}
ContextIds == {ContextId(n) : n \in 1..MaxContexts}
SessionUpdates ==
  {Obj(<< <<"metadata", Obj(<< <<"user", Str("u")>> >>)>> >>),
   Obj(<< <<"contexts", Arr(<< Str("ctx_9") >>)>> >>)}
ContextDatas == {Obj(<< <<"a", Num("1")>> >>)}
ContextUpdates == {Obj(<< <<"data", Obj(<< <<"b", Num("2")>> >>)>> >>), EmptyObj}

Request(name, sessionId, contextId, arg) ==
  [op |-> name, sessionId |-> sessionId, contextId |-> contextId, arg |-> arg]

StoreRequests ==
  {Request("createSession", s, "", EmptyObj) : s \in SessionIds}
    \cup {Request("updateSession", s, "", u) :
            s \in SessionIds, u \in SessionUpdates}
    \cup {Request("deleteSession", s, "", Undefined) : s \in SessionIds}
    \cup {Request("createContext", s, "", d) :
            s \in SessionIds, d \in ContextDatas}
    \cup {Request("updateContext", "", c, u) :
            c \in ContextIds, u \in ContextUpdates}
    \cup {Request("deleteContext", "", c, Undefined) : c \in ContextIds}

\* The requests of concurrent callers: one session, no session deletion and
\* no update of a session's contexts list.
ConcurrentRequests ==
  {rq \in StoreRequests :
     /\ rq.sessionId \in {"", "s1"}
     /\ rq.contextId \in {"", ContextId(1), ContextId(2)}
     /\ rq.op # "deleteSession"
     /\ rq.op = "updateSession" => Has(rq.arg, "metadata")
     /\ rq.op = "updateContext" => Has(rq.arg, "data")}

\* The synchronous part of an operation, from the loaded copy to the copy it
\* saves; contextId is the identifier createContext would generate.
Apply(db, rq, contextId) ==
  CASE rq.op = "createSession" -> CreateSession(db, rq.sessionId, rq.arg)
    [] rq.op = "updateSession" -> UpdateSession(db, rq.sessionId, rq.arg)
    [] rq.op = "deleteSession" -> DeleteSession(db, rq.sessionId)
    [] rq.op = "createContext" ->
         CreateContext(db, rq.sessionId, rq.arg, contextId)
    [] rq.op = "updateContext" -> UpdateContext(db, rq.contextId, rq.arg)
    [] rq.op = "deleteContext" -> DeleteContext(db, rq.contextId)

IdleProc ==
  [pc |-> "idle", request |-> Request("", "", "", Undefined),
   db |-> Undefined, result |-> Undefined]

\* Nothing acknowledged yet: the contexts whose creation, the contexts whose
\* update and the sessions whose update a caller has been told succeeded.
NoneAcknowledged == [created |-> {}, contexts |-> {}, sessions |-> {}]

\* An operation is called: `await loadContextDb()` reads the file and the
\* code runs on without suspending up to `await saveContextDb(db)`, or to
\* its throw.
Begin(p, requests) ==
  /\ procs[p].pc = "idle"
  /\ began < MaxStoreCalls
  /\ began' = began + 1
  /\ \E rq \in requests :
       LET fresh == rq.op = "createContext"
                      /\ Truthy(Lookup(Sessions(LoadContextDb(file)),
                                       rq.sessionId))
           outcome == Apply(LoadContextDb(file), rq, ContextId(nextId))
       IN /\ fresh => nextId <= MaxContexts
          /\ nextId' = IF fresh THEN nextId + 1 ELSE nextId
          /\ procs' = [procs EXCEPT
                         ![p] = [pc |-> IF outcome.save THEN "saving"
                                        ELSE "failed",
                                 request |-> rq,
                                 db |-> outcome.db,
                                 result |-> outcome.result]]
  /\ UNCHANGED file

\* fs.writeFile completes: the file holds the operation's whole copy.
Save(p) ==
  /\ procs[p].pc = "saving"
  /\ file' = SaveContextDb(procs[p].db)
  /\ procs' = [procs EXCEPT ![p].pc = "done"]
  /\ UNCHANGED <<nextId, began>>

\* The operation returns to its caller, or throws.
Settle(p) ==
  /\ procs[p].pc \in {"done", "failed"}
  /\ procs' = [procs EXCEPT ![p] = IdleProc]
  /\ UNCHANGED <<file, nextId, began>>

\* The record of acknowledged writes: a deleteContext that has written
\* ends what was acknowledged of its context.
Deleted(p) ==
  IF procs[p].request.op = "deleteContext"
  THEN [acknowledged EXCEPT
          !.created = @ \ {procs[p].request.contextId},
          !.contexts = @ \ {procs[p].request.contextId}]
  ELSE acknowledged

\* The record of acknowledged writes: what the caller of a successful
\* createContext, updateContext or updateSession has been told.
Acknowledged(p) ==
  LET rq == procs[p].request
  IN CASE procs[p].pc = "done" /\ rq.op = "createContext" ->
            [acknowledged EXCEPT
               !.created = @ \cup {Val(Lookup(procs[p].result, "id"))}]
       [] procs[p].pc = "done" /\ rq.op = "updateContext" ->
            [acknowledged EXCEPT !.contexts = @ \cup {rq.contextId}]
       [] procs[p].pc = "done" /\ rq.op = "updateSession" ->
            [acknowledged EXCEPT !.sessions = @ \cup {rq.sessionId}]
       [] OTHER -> acknowledged

\* A store operation called by one caller at a time.
StoreCall(p) ==
  /\ Begin(p, StoreRequests)
  /\ UNCHANGED acknowledged
  /\ UNCHANGED <<MODEL_TYPE, calls, invoked, posts, returned, thrown, merged,
                 op, serverVars>>

\* A store operation called while others may be in progress.
ConcurrentStoreCall(p) ==
  /\ Begin(p, ConcurrentRequests)
  /\ UNCHANGED acknowledged
  /\ UNCHANGED <<MODEL_TYPE, calls, invoked, posts, returned, thrown, merged,
                 op, serverVars>>

StoreSave(p) ==
  /\ Save(p)
  /\ UNCHANGED acknowledged
  /\ UNCHANGED <<MODEL_TYPE, calls, invoked, posts, returned, thrown, merged,
                 op, serverVars>>

StoreSettle(p) ==
  /\ Settle(p)
  /\ UNCHANGED acknowledged
  /\ UNCHANGED <<MODEL_TYPE, calls, invoked, posts, returned, thrown, merged,
                 op, serverVars>>

ConcurrentStoreSave(p) ==
  /\ Save(p)
  /\ acknowledged' = Deleted(p)
  /\ UNCHANGED <<MODEL_TYPE, calls, invoked, posts, returned, thrown, merged,
                 op, serverVars>>

ConcurrentStoreSettle(p) ==
  /\ Settle(p)
  /\ acknowledged' = Acknowledged(p)
  /\ UNCHANGED <<MODEL_TYPE, calls, invoked, posts, returned, thrown, merged,
                 op, serverVars>>

-----------------------------------------------------------------------------
(* The HTTP server: the authenticate middleware (src/middleware/auth.js)   *)
(* in front of the session, context and model routers, and the route       *)
(* handlers.  A handler's awaited store calls run one after the other; the  *)
(* model is the only party a handler waits for.                             *)

MaxRequests == 3

\* Values of process.env.API_KEY (undefined: the variable is not set).
EnvApiKeys == {Undefined, Str(""), Str("secret")}

\* Values of req.headers.authorization (undefined: no such header).
Headers ==
  {Undefined, Str("Bearer secret"), Str("Bearer wrong"), Str("secret")}

\* s.startsWith(prefix)
StartsWith(s, prefix) ==
  Len(s) >= Len(prefix) /\ SubSeq(s, 1, Len(prefix)) = prefix

\* s.substring(n)
Substring(s, n) == SubSeq(s, n + 1, Len(s))

\* { error: { message, code } }
ErrorBody(message, code) ==
  Obj(<< <<"error", Obj(<< <<"message", Str(message)>>,
                           <<"code", Str(code)>> >>)>> >>)

Pass == [next |-> TRUE, status |-> 0, response |-> Undefined]
Deny(status, message, code) ==
  [next |-> FALSE, status |-> status, response |-> ErrorBody(message, code)]

\* Mutant of Authenticate: a request is let through whenever its header is
\* a Bearer token.
AuthenticateAnyBearer(apiKey, authHeader) ==
  IF ~Truthy(apiKey) THEN Pass
  ELSE IF ~Truthy(authHeader)
  THEN Deny(401, "Authorization header is required", "UNAUTHORIZED")
  ELSE IF StartsWith(Val(authHeader), "Bearer ") THEN Pass
  ELSE Deny(401, "Authorization header must be Bearer token", "UNAUTHORIZED")

\* authenticate(req, res, next): next() or the response sent instead.
Authenticate(apiKey, authHeader) ==
  IF ~Truthy(apiKey) THEN Pass
  ELSE IF ~Truthy(authHeader)
  THEN Deny(401, "Authorization header is required", "UNAUTHORIZED")
  ELSE IF StartsWith(Val(authHeader), "Bearer ")
  THEN IF Str(Substring(Val(authHeader), 7)) = apiKey THEN Pass
       ELSE Deny(403, "Invalid API key", "FORBIDDEN")
  ELSE Deny(401, "Authorization header must be Bearer token", "UNAUTHORIZED")

\* What a handler does next: it responds, or it awaits queryModel, or it
\* awaits one of the operations built on queryModel.  reads and writes
\* count the loads and saves of the store's file, fresh tells that a context
\* identifier was generated.
Respond(status, response, db, reads, writes, fresh) ==
  [next |-> "respond", status |-> status, response |-> response, db |-> db,
   reads |-> reads, writes |-> writes, fresh |-> fresh,
   name |-> "", contexts |-> <<>>, task |-> Undefined, prompt |-> Undefined,
   context |-> Undefined, options |-> Undefined]

ThenQuery(prompt, context, options, db, reads) ==
  [next |-> "query", status |-> 0, response |-> Undefined, db |-> db,
   reads |-> reads, writes |-> 0, fresh |-> FALSE,
   name |-> "queryModel", contexts |-> <<>>, task |-> Undefined,
   prompt |-> prompt, context |-> context, options |-> options]

ThenOperation(name, contexts, task, options, db, reads) ==
  [next |-> "operation", status |-> 0, response |-> Undefined, db |-> db,
   reads |-> reads, writes |-> 0, fresh |-> FALSE,
   name |-> name, contexts |-> contexts, task |-> task,
   prompt |-> Undefined, context |-> Undefined, options |-> options]

\* next(error): the error handling middleware answers err.status || 500.
NextError(message, db, reads) ==
  Respond(500, ErrorBody(message, "INTERNAL_ERROR"), db, reads, 0, FALSE)

\* The answer to one store call `o`: the catch block answers 404 when the
\* error message includes 'not found', else passes the error on.
StoreAnswer(o, status, body, message, code, fresh) ==
  IF IsThrow(o.result)
  THEN IF Includes(Val(o.result), "not found")
       THEN Respond(404, ErrorBody(message, code), o.db, 1, 0, FALSE)
       ELSE NextError(Val(o.result), o.db, 1)
  ELSE Respond(status, body, o.db, 1, IF o.save THEN 1 ELSE 0, fresh)

\* session.contexts.map(contextId => db.contexts[contextId]).filter(Boolean)
GetSessionContexts(db, sessionId) ==
  IF ~Truthy(Lookup(Sessions(db), sessionId))
  THEN Throws(db, "Session with ID " \o sessionId \o " not found")
  ELSE LET ids == Val(Lookup(Lookup(Sessions(db), sessionId), "contexts"))
           found == [i \in 1..Len(ids) |-> Lookup(StoredOf(db), Val(ids[i]))]
       IN Returns(db, Arr(SelectSeq(found, Truthy)), FALSE)

SessionNotFound(sessionId) == "Session with ID " \o sessionId \o " not found"
ContextNotFound(contextId) == "Context with ID " \o contextId \o " not found"

\* The handlers of the session router.
SessionRoute(rq, db) ==
  CASE rq.route = "POST /api/session" ->
         LET metadata == Lookup(rq.body, "metadata")
             o == CreateSession(db, Val(Lookup(rq.body, "sessionId")),
                                IF metadata = Undefined THEN EmptyObj
                                ELSE metadata)
         IN IF IsThrow(o.result) THEN NextError(Val(o.result), db, 1)
            ELSE Respond(201, o.result, o.db, 1, 1, FALSE)
    [] rq.route = "GET /api/session/:sessionId" ->
         LET o == GetSession(db, rq.param)
         IN StoreAnswer(o, 200, o.result, SessionNotFound(rq.param),
                        "SESSION_NOT_FOUND", FALSE)
    [] rq.route = "PATCH /api/session/:sessionId" ->
         LET o == UpdateSession(db, rq.param, rq.body)
         IN StoreAnswer(o, 200, o.result, SessionNotFound(rq.param),
                        "SESSION_NOT_FOUND", FALSE)
    [] rq.route = "DELETE /api/session/:sessionId" ->
         LET o == DeleteSession(db, rq.param)
         IN StoreAnswer(o, 204, Undefined, SessionNotFound(rq.param),
                        "SESSION_NOT_FOUND", FALSE)
    [] rq.route = "GET /api/session/:sessionId/contexts" ->
         LET o == GetSessionContexts(db, rq.param)
         IN StoreAnswer(o, 200, o.result, SessionNotFound(rq.param),
                        "SESSION_NOT_FOUND", FALSE)

\* The loop of the merge handler over contextIds: the contexts found, up to
\* the first identifier that is not stored.
RECURSIVE Found(_, _)
Found(db, contextIds) ==
  IF contextIds = <<>> THEN <<>>
  ELSE LET o == GetContext(db, Val(Head(contextIds)))
       IN IF IsThrow(o.result) THEN <<>>
          ELSE <<o.result>> \o Found(db, Tail(contextIds))

\* The handlers of the context router, up to their first await of the model.
ContextRoute(rq, db, contextId) ==
  CASE rq.route = "POST /api/context" ->
         LET sessionId == Lookup(rq.body, "sessionId")
             o == CreateContext(db, Val(sessionId), Lookup(rq.body, "data"),
                                contextId)
         IN IF ~Truthy(sessionId)
            THEN Respond(400, ErrorBody("sessionId is required",
                                        "MISSING_SESSION_ID"),
                         db, 0, 0, FALSE)
            ELSE StoreAnswer(o, 201, o.result,
                             SessionNotFound(Val(sessionId)),
                             "SESSION_NOT_FOUND", TRUE)
    [] rq.route = "GET /api/context/:contextId" ->
         LET o == GetContext(db, rq.param)
         IN StoreAnswer(o, 200, o.result, ContextNotFound(rq.param),
                        "CONTEXT_NOT_FOUND", FALSE)
    [] rq.route = "PATCH /api/context/:contextId" ->
         LET o == UpdateContext(db, rq.param, rq.body)
         IN StoreAnswer(o, 200, o.result, ContextNotFound(rq.param),
                        "CONTEXT_NOT_FOUND", FALSE)
    [] rq.route = "DELETE /api/context/:contextId" ->
         LET o == DeleteContext(db, rq.param)
         IN StoreAnswer(o, 204, Undefined, ContextNotFound(rq.param),
                        "CONTEXT_NOT_FOUND", FALSE)
    [] rq.route = "POST /api/context/merge" ->
         LET contextIds == Lookup(rq.body, "contextIds")
             contexts == Found(db, Val(contextIds))
         IN IF \/ ~Truthy(contextIds)
               \/ Tag(contextIds) # "array"
               \/ Val(contextIds) = <<>>
            THEN Respond(400,
                         ErrorBody("contextIds array is required and must not be empty",
                                   "INVALID_CONTEXT_IDS"),
                         db, 0, 0, FALSE)
            ELSE IF Len(contexts) < Len(Val(contextIds))
            THEN Respond(404,
                         ErrorBody(ContextNotFound(
                                     Val(Val(contextIds)[Len(contexts) + 1])),
                                   "CONTEXT_NOT_FOUND"),
                         db, Len(contexts) + 1, 0, FALSE)
            ELSE ThenOperation("mergeContexts", contexts, Undefined,
                               Or(Lookup(rq.body, "options"), EmptyObj),
                               db, Len(contexts))
    [] rq.route = "POST /api/context/:contextId/summarize" ->
         LET o == GetContext(db, rq.param)
         IN IF IsThrow(o.result)
            THEN StoreAnswer(o, 0, Undefined, ContextNotFound(rq.param),
                             "CONTEXT_NOT_FOUND", FALSE)
            ELSE ThenOperation("summarizeContext", <<o.result>>, Undefined,
                               Or(Lookup(rq.body, "options"), EmptyObj),
                               db, 1)

\* The handlers of the model router, up to their await of the model.
ModelRoute(rq, db) ==
  CASE rq.route = "POST /api/model/query" ->
         LET prompt == Lookup(rq.body, "prompt")
             contextId == Lookup(rq.body, "contextId")
             options == Or(Lookup(rq.body, "options"), EmptyObj)
             o == GetContext(db, Val(contextId))
         IN IF ~Truthy(prompt)
            THEN Respond(400, ErrorBody("prompt is required", "MISSING_PROMPT"),
                         db, 0, 0, FALSE)
            ELSE IF ~Truthy(contextId)
            THEN ThenQuery(prompt, EmptyObj, options, db, 0)
            ELSE IF IsThrow(o.result)
            THEN Respond(404, ErrorBody(ContextNotFound(Val(contextId)),
                                        "CONTEXT_NOT_FOUND"),
                         db, 1, 0, FALSE)
            ELSE ThenQuery(prompt, Or(GetProp(o.result, "data"), EmptyObj),
                           options, db, 1)
    [] rq.route = "POST /api/model/process" ->
         LET contextId == Lookup(rq.body, "contextId")
             task == Lookup(rq.body, "task")
             o == GetContext(db, Val(contextId))
         IN IF ~Truthy(contextId)
            THEN Respond(400, ErrorBody("contextId is required",
                                        "MISSING_CONTEXT_ID"),
                         db, 0, 0, FALSE)
            ELSE IF ~Truthy(task)
            THEN Respond(400, ErrorBody("task is required", "MISSING_TASK"),
                         db, 0, 0, FALSE)
            ELSE IF IsThrow(o.result)
            THEN Respond(404, ErrorBody(ContextNotFound(Val(contextId)),
                                        "CONTEXT_NOT_FOUND"),
                         db, 1, 0, FALSE)
            ELSE ThenOperation("processContext", <<o.result>>, task,
                               Or(Lookup(rq.body, "options"), EmptyObj),
                               db, 1)

SessionRoutes ==
  {"POST /api/session", "GET /api/session/:sessionId",
   "PATCH /api/session/:sessionId", "DELETE /api/session/:sessionId",
   "GET /api/session/:sessionId/contexts"}
ContextRoutes ==
  {"POST /api/context", "GET /api/context/:contextId",
   "PATCH /api/context/:contextId", "DELETE /api/context/:contextId",
   "POST /api/context/merge", "POST /api/context/:contextId/summarize"}
ModelRoutes == {"POST /api/model/query", "POST /api/model/process"}

\* The handler of the route a request matches.
Handle(rq, db, contextId) ==
  CASE rq.route \in SessionRoutes -> SessionRoute(rq, db)
    [] rq.route \in ContextRoutes -> ContextRoute(rq, db, contextId)
    [] rq.route \in ModelRoutes -> ModelRoute(rq, db)

\* Mutant of QueryRouteAfter: the completion is answered without storing
\* the new context.
QueryRouteAfterStoresNothing(rq, call, db, contextId) ==
  IF call.pc = "failed" THEN NextError(Val(call.error), db, 0)
  ELSE LET completion == GetProp(call.result, "completion")
           sessionId == Lookup(rq.body, "sessionId")
           responseContext ==
             Obj(<< <<"prompt", Lookup(rq.body, "prompt")>>,
                    <<"response", completion>>,
                    <<"timestamp", Timestamp>> >>)
           o == CreateContext(db, Val(sessionId), responseContext, contextId)
       IN IF ~Truthy(sessionId)
          THEN Respond(200, call.result, db, 0, 0, FALSE)
          ELSE IF IsThrow(o.result) THEN NextError(Val(o.result), db, 1)
          ELSE Respond(200,
                       Obj(<< <<"completion", completion>>,
                              <<"context", o.result>> >>),
                       db, 1, 0, TRUE)

\* The query handler after `await modelManager.queryModel(...)`.
QueryRouteAfter(rq, call, db, contextId) ==
  IF call.pc = "failed" THEN NextError(Val(call.error), db, 0)
  ELSE LET completion == GetProp(call.result, "completion")
           sessionId == Lookup(rq.body, "sessionId")
           responseContext ==
             Obj(<< <<"prompt", Lookup(rq.body, "prompt")>>,
                    <<"response", completion>>,
                    <<"timestamp", Timestamp>> >>)
           o == CreateContext(db, Val(sessionId), responseContext, contextId)
       IN IF ~Truthy(sessionId)
          THEN Respond(200, call.result, db, 0, 0, FALSE)
          ELSE IF IsThrow(o.result) THEN NextError(Val(o.result), db, 1)
          ELSE Respond(200,
                       Obj(<< <<"completion", completion>>,
                              <<"context", o.result>> >>),
                       o.db, 1, 1, TRUE)

\* The merge, summarize and process handlers after the await of their
\* operation.
OperationRouteAfter(rq, o, db, contextId) ==
  LET sessionId == Lookup(rq.body, "sessionId")
      created == CreateContext(db, Val(sessionId), GetProp(o.result, "data"),
                               contextId)
      summarize == rq.route = "POST /api/context/:contextId/summarize"
      \* the catch block of the handler
      Caught(message, reads) ==
        IF summarize /\ Includes(message, "not found")
        THEN Respond(404, ErrorBody(ContextNotFound(rq.param),
                                    "CONTEXT_NOT_FOUND"),
                     db, reads, 0, FALSE)
        ELSE NextError(message, db, reads)
  IN IF o.pc = "failed" THEN Caught(Val(o.error), 0)
     ELSE IF ~Truthy(sessionId) THEN Respond(200, o.result, db, 0, 0, FALSE)
     ELSE IF IsThrow(created.result) THEN Caught(Val(created.result), 1)
     ELSE IF rq.route = "POST /api/model/process"
     THEN Respond(200,
                  Obj(<< <<"result", GetProp(o.result, "result")>>,
                         <<"context", created.result>> >>),
                  created.db, 1, 1, TRUE)
     ELSE Respond(201, created.result, created.db, 1, 1, TRUE)

\* The requests sent to the server.
HttpRequest(route, param, body) ==
  [route |-> route, param |-> param, body |-> body]

InSession == <<"sessionId", Str("s1")>>
UseModel == <<"options", Obj(<< <<"useModel", Bool("true")>> >>)>>
OneContext == <<"contextIds", Arr(<< Str(ContextId(1)) >>)>>
TwoContexts ==
  <<"contextIds", Arr(<< Str(ContextId(1)), Str(ContextId(2)) >>)>>
AskHi == <<"prompt", Str("Hi")>>
AboutContext == <<"contextId", Str(ContextId(1))>>
WithTask == <<"task", Str("Extract keywords")>>

ServerRequests ==
  {HttpRequest("POST /api/session", "", Obj(<< InSession >>)),
   HttpRequest("GET /api/session/:sessionId", "s1", EmptyObj),
   HttpRequest("PATCH /api/session/:sessionId", "s1",
               Obj(<< <<"metadata", Obj(<< <<"user", Str("u")>> >>)>> >>)),
   HttpRequest("DELETE /api/session/:sessionId", "s1", EmptyObj),
   HttpRequest("GET /api/session/:sessionId/contexts", "s1", EmptyObj),
   HttpRequest("POST /api/context", "", EmptyObj),
   HttpRequest("POST /api/context", "",
               Obj(<< InSession, <<"data", Obj(<< <<"a", Num("1")>> >>)>> >>)),
   HttpRequest("GET /api/context/:contextId", ContextId(1), EmptyObj),
   HttpRequest("PATCH /api/context/:contextId", ContextId(1),
               Obj(<< <<"data", Obj(<< <<"b", Num("2")>> >>)>> >>)),
   HttpRequest("DELETE /api/context/:contextId", ContextId(1), EmptyObj),
   HttpRequest("POST /api/context/merge", "", EmptyObj),
   HttpRequest("POST /api/context/merge", "", Obj(<< OneContext >>)),
   HttpRequest("POST /api/context/merge", "", Obj(<< OneContext, InSession >>)),
   HttpRequest("POST /api/context/merge", "", Obj(<< TwoContexts, UseModel >>)),
   HttpRequest("POST /api/context/merge", "",
               Obj(<< OneContext, UseModel, InSession >>)),
   HttpRequest("POST /api/context/:contextId/summarize", ContextId(1),
               EmptyObj),
   HttpRequest("POST /api/context/:contextId/summarize", ContextId(1),
               Obj(<< InSession >>)),
   HttpRequest("POST /api/model/query", "", EmptyObj),
   HttpRequest("POST /api/model/query", "", Obj(<< <<"prompt", Str("")>> >>)),
   HttpRequest("POST /api/model/query", "", Obj(<< AskHi >>)),
   HttpRequest("POST /api/model/query", "", Obj(<< AskHi, AboutContext >>)),
   HttpRequest("POST /api/model/query", "", Obj(<< AskHi, InSession >>)),
   HttpRequest("POST /api/model/query", "",
               Obj(<< AskHi, AboutContext, InSession >>)),
   HttpRequest("POST /api/model/process", "", EmptyObj),
   HttpRequest("POST /api/model/process", "", Obj(<< AboutContext >>)),
   HttpRequest("POST /api/model/process", "",
               Obj(<< AboutContext, WithTask >>)),
   HttpRequest("POST /api/model/process", "",
               Obj(<< AboutContext, WithTask, InSession >>))}

\* No request in progress; n counts the requests received so far, before is
\* the file as the request in progress found it.
IdleReq ==
  [pc |-> "idle", n |-> 0, request |-> HttpRequest("", "", Undefined),
   header |-> Undefined, reached |-> FALSE, status |-> 0,
   response |-> Undefined, reads |-> 0, writes |-> 0, queries |-> 0,
   before |-> Undefined]

\* res.status(status).json(response): the request is answered.
Answered(r, h) ==
  [r EXCEPT !.pc = "responded", !.status = h.status,
            !.response = Serialized(h.response),
            !.reads = @ + h.reads, !.writes = @ + h.writes]

\* What a handler's store calls leave in the file.
Written(h) == IF h.writes > 0 THEN SaveContextDb(h.db) ELSE file

\* The operation a handler awaits.
CallOperation(c, h) ==
  CASE h.name = "processContext" ->
         CallProcessContext(c, h.contexts[1], h.task, h.options)
    [] h.name = "mergeContexts" -> CallMergeContexts(c, h.contexts, h.options)
    [] h.name = "summarizeContext" ->
         CallSummarizeContext(c, h.contexts[1], h.options)

\* A request arrives: authenticate runs, and when it calls next() the
\* route's handler runs up to its response or to its await of the model.
Receive(c) ==
  /\ req.pc = "idle"
  /\ req.n < MaxRequests
  /\ \E rq \in ServerRequests, header \in Headers :
       LET auth == Authenticate(API_KEY, header)
           h == Handle(rq, LoadContextDb(file), ContextId(nextId))
           received == [IdleReq EXCEPT !.n = req.n + 1, !.request = rq,
                                       !.header = header,
                                       !.before = file]
           reached == [received EXCEPT !.reached = TRUE]
       IN IF ~auth.next
          THEN /\ req' = [received EXCEPT !.pc = "responded",
                                          !.status = auth.status,
                                          !.response = auth.response]
               /\ UNCHANGED <<calls, invoked, posts, op, file, nextId>>
          ELSE CASE h.next = "respond" ->
                      /\ h.fresh => nextId <= MaxContexts
                      /\ req' = Answered(reached, h)
                      /\ file' = Written(h)
                      /\ nextId' = IF h.fresh THEN nextId + 1 ELSE nextId
                      /\ UNCHANGED <<calls, invoked, posts, op>>
                 [] h.next = "query" ->
                      /\ calls[c].pc = "idle"
                      /\ invoked < MaxCalls
                      /\ calls' = [calls EXCEPT
                                     ![c] = StartQuery(IdleCall, MODEL_TYPE,
                                                       h.prompt, h.context,
                                                       h.options)]
                      /\ invoked' = invoked + 1
                      /\ posts' = posts + 1
                      /\ req' = [reached EXCEPT !.pc = "model",
                                                !.reads = h.reads,
                                                !.queries = 1]
                      /\ UNCHANGED <<op, file, nextId>>
                 [] h.next = "operation" ->
                      /\ op.pc = "idle"
                      /\ CallOperation(c, h)
                      /\ req' = [reached EXCEPT !.pc = "operation",
                                                !.reads = h.reads,
                                                !.queries = posts' - posts]
                      /\ UNCHANGED <<file, nextId>>
  /\ UNCHANGED <<MODEL_TYPE, returned, thrown, merged, procs, began,
                 acknowledged, API_KEY>>

\* queryModel has settled: the query handler runs on to its response.
QueryRouteResumes(c) ==
  /\ req.pc = "model"
  /\ calls[c].pc \in {"done", "failed"}
  /\ LET h == QueryRouteAfter(req.request, calls[c], LoadContextDb(file),
                              ContextId(nextId))
     IN /\ h.fresh => nextId <= MaxContexts
        /\ req' = Answered(req, h)
        /\ file' = Written(h)
        /\ nextId' = IF h.fresh THEN nextId + 1 ELSE nextId
  /\ returned' = IF calls[c].pc = "done" THEN returned + 1 ELSE returned
  /\ thrown' = IF calls[c].pc = "failed" THEN thrown + 1 ELSE thrown
  /\ UNCHANGED <<MODEL_TYPE, calls, invoked, posts, merged, op, procs, began,
                 acknowledged, API_KEY>>

\* The awaited operation has settled: the handler runs on to its response.
OperationRouteResumes(c) ==
  /\ req.pc = "operation"
  /\ op.pc \in {"done", "failed"}
  /\ LET h == OperationRouteAfter(req.request, op, LoadContextDb(file),
                                  ContextId(nextId))
     IN /\ h.fresh => nextId <= MaxContexts
        /\ req' = Answered(req, h)
        /\ file' = Written(h)
        /\ nextId' = IF h.fresh THEN nextId + 1 ELSE nextId
  /\ UNCHANGED <<MODEL_TYPE, calls, invoked, posts, returned, thrown, merged,
                 op, procs, began, acknowledged, API_KEY>>

\* The response is sent; the server is ready for the next request.
RequestEnds(c) ==
  /\ req.pc = "responded"
  /\ req' = [IdleReq EXCEPT !.n = req.n]
  /\ op' = NoOp
  /\ calls' = [calls EXCEPT ![c] = IdleCall]
  /\ UNCHANGED <<MODEL_TYPE, invoked, posts, returned, thrown, merged,
                 storeVars, API_KEY>>

-----------------------------------------------------------------------------
(* Specification of the adapter's query calls *)

Init ==
  /\ \E env \in EnvModelTypes : MODEL_TYPE = ConfiguredModelType(env)
  /\ calls = [c \in Callers |-> IdleCall]
  /\ invoked = 0
  /\ posts = 0
  /\ returned = 0
  /\ thrown = 0
  /\ merged = NoMerge
  /\ op = NoOp
  /\ file = Undefined
  /\ procs = [p \in {"p1"} |-> IdleProc]
  /\ nextId = 1
  /\ began = 0
  /\ acknowledged = NoneAcknowledged
  /\ API_KEY = Undefined
  /\ req = IdleReq

Next ==
  \E c \in Callers :
    \/ QueryModel(c)
    \/ AxiosResolve(c)
    \/ AxiosReject(c)
    \/ QueryReturns(c)
    \/ QueryThrows(c)

Spec == Init /\ [][Next]_vars

\* Specification of the structural merges.
MergeNext == MergeContextsStructural \/ MergeReturns

SpecMerge == Init /\ [][MergeNext]_vars

\* Specification of the operations built on queryModel.
OperationNext ==
  \E c \in Callers :
    \/ ProcessContext(c)
    \/ MergeContexts(c)
    \/ SummarizeContext(c)
    \/ AxiosResolve(c)
    \/ AxiosReject(c)
    \/ OperationResumes(c)
    \/ OperationReturns(c)

SpecOperations == Init /\ [][OperationNext]_vars

\* Specification of query calls in flight at the same time: each caller's
\* call suspends at its await, and the event loop runs the other's steps.
ConcurrentCallers == {"caller1", "caller2"}

ConcurrentQueryInit ==
  /\ \E env \in EnvModelTypes : MODEL_TYPE = ConfiguredModelType(env)
  /\ calls = [c \in ConcurrentCallers |-> IdleCall]
  /\ invoked = 0
  /\ posts = 0
  /\ returned = 0
  /\ thrown = 0
  /\ merged = NoMerge
  /\ op = NoOp
  /\ file = Undefined
  /\ procs = [p \in {"p1"} |-> IdleProc]
  /\ nextId = 1
  /\ began = 0
  /\ acknowledged = NoneAcknowledged
  /\ API_KEY = Undefined
  /\ req = IdleReq

ConcurrentQueryNext ==
  \E c \in ConcurrentCallers :
    \/ ConcurrentQueryModel(c)
    \/ ConcurrentAxiosResolve(c)
    \/ ConcurrentAxiosReject(c)
    \/ QueryReturns(c)
    \/ QueryThrows(c)

SpecConcurrentQueries == ConcurrentQueryInit /\ [][ConcurrentQueryNext]_vars

\* The store does not depend on the adapter's configuration.
StoreInit == Init /\ MODEL_TYPE = ConfiguredModelType(Undefined)

\* Specification of the store under one caller: an operation is called when
\* the previous one has settled.
StoreNext ==
  \E p \in DOMAIN procs : StoreCall(p) \/ StoreSave(p) \/ StoreSettle(p)

SpecStore == StoreInit /\ [][StoreNext]_vars

\* Specification of the store under two concurrent callers.
ConcurrentInit ==
  /\ MODEL_TYPE = ConfiguredModelType(Undefined)
  /\ calls = [c \in Callers |-> IdleCall]
  /\ invoked = 0
  /\ posts = 0
  /\ returned = 0
  /\ thrown = 0
  /\ merged = NoMerge
  /\ op = NoOp
  /\ file = Undefined
  /\ procs = [p \in {"p1", "p2"} |-> IdleProc]
  /\ nextId = 1
  /\ began = 0
  /\ acknowledged = NoneAcknowledged
  /\ API_KEY = Undefined
  /\ req = IdleReq

ConcurrentStoreNext ==
  \E p \in DOMAIN procs :
    \/ ConcurrentStoreCall(p)
    \/ ConcurrentStoreSave(p)
    \/ ConcurrentStoreSettle(p)

SpecStoreConcurrent == ConcurrentInit /\ [][ConcurrentStoreNext]_vars

\* Specification of the HTTP server, one request at a time.
ServerInit ==
  /\ MODEL_TYPE = ConfiguredModelType(Undefined)
  /\ calls = [c \in Callers |-> IdleCall]
  /\ invoked = 0
  /\ posts = 0
  /\ returned = 0
  /\ thrown = 0
  /\ merged = NoMerge
  /\ op = NoOp
  /\ file = Undefined
  /\ procs = [p \in {"p1"} |-> IdleProc]
  /\ nextId = 1
  /\ began = 0
  /\ acknowledged = NoneAcknowledged
  /\ \E key \in EnvApiKeys : API_KEY = key
  /\ req = IdleReq

ServerNext ==
  \E c \in Callers :
    \/ Receive(c)
    \/ AxiosResolve(c)
    \/ AxiosReject(c)
    \/ OperationResumes(c)
    \/ QueryRouteResumes(c)
    \/ OperationRouteResumes(c)
    \/ RequestEnds(c)

SpecServer == ServerInit /\ [][ServerNext]_vars

-----------------------------------------------------------------------------
(* Properties of queryModel *)

Kind == ToLowerCase(Val(MODEL_TYPE))
KnownKinds == {"mistral", "openai", "anthropic"}

\* The call has posted its request.
Posted(c) == calls[c].pc # "idle"
\* The JSON body of the call's request.
Body(c) == Lookup(calls[c].request, "data")
NonEmpty(o) == Val(o) # <<>>

\* The fields the adapter computes besides the composed prompt.
ComputedFields(kind) ==
  IF kind = "anthropic" THEN {"model", "max_tokens_to_sample", "temperature"}
  ELSE {"model", "max_tokens", "temperature"}

\* C1: for mistral, openai and anthropic, every key of options that collides
\* with a computed field (model, max_tokens / max_tokens_to_sample,
\* temperature) is in the outbound payload with the options value, falsy
\* values (0, "", null) included.
C1_OptionsOverrideComputedFields ==
  \A c \in Callers :
    (Posted(c) /\ Kind \in KnownKinds) =>
      \A k \in KeySet(calls[c].options) \cap ComputedFields(Kind) :
        /\ Has(Body(c), k)
        /\ Lookup(Body(c), k) = Lookup(calls[c].options, k)

\* A mistral call with options {temperature: 0} has posted temperature 0.
C1_Witness ==
  \E c \in Callers :
    /\ Posted(c) /\ Kind = "mistral"
    /\ calls[c].options = Obj(<< <<"temperature", Num("0")>> >>)
    /\ Lookup(Body(c), "temperature") = Num("0")

\* C2: for mistral, openai and anthropic, the prompt carried by the outbound
\* payload is always the one composed from the prompt and context arguments;
\* no key of options (prompt, or messages for openai) replaces it.
C2_PromptNeverOverridden ==
  \A c \in Callers :
    (Posted(c) /\ Kind \in KnownKinds) =>
      CASE Kind = "mistral" -> Lookup(Body(c), "prompt") = calls[c].prompt
        [] Kind = "anthropic" ->
             Lookup(Body(c), "prompt") =
               Str((IF NonEmpty(calls[c].context)
                    THEN JSONstringify(calls[c].context) \o "\n\n" ELSE "")
                   \o "Human: " \o Val(calls[c].prompt) \o "\n\nAssistant:")
        [] OTHER ->
             /\ Tag(Lookup(Body(c), "messages")) = "array"
             /\ Val(Lookup(Body(c), "messages")) # <<>>
             /\ LET msgs == Val(Lookup(Body(c), "messages"))
                IN msgs[Len(msgs)] =
                     Obj(<< <<"role", Str("user")>>,
                            <<"content", calls[c].prompt>> >>)

\* C3: with an empty options map the payload carries the per-kind defaults
\* and nothing else: mistral mistral-12b/500/0.7, openai gpt-3.5-turbo/500/0.7
\* (query("Hi", {}, {}) is exactly {model, messages:[user "Hi"],
\* max_tokens:500, temperature:0.7}), anthropic claude-2/500 as
\* max_tokens_to_sample/0.7, generic no model, token limit or temperature.
C3_DefaultsWithEmptyOptions ==
  \A c \in Callers :
    (Posted(c) /\ calls[c].options = EmptyObj) =>
      CASE Kind = "mistral" ->
             /\ KeySet(Body(c)) \ {"context"} =
                  {"prompt", "model", "max_tokens", "temperature"}
             /\ Lookup(Body(c), "model") = Str("mistral-12b")
             /\ Lookup(Body(c), "max_tokens") = Num("500")
             /\ Lookup(Body(c), "temperature") = Num("0.7")
        [] Kind = "openai" ->
             /\ KeySet(Body(c)) =
                  {"model", "messages", "max_tokens", "temperature"}
             /\ Lookup(Body(c), "model") = Str("gpt-3.5-turbo")
             /\ Lookup(Body(c), "max_tokens") = Num("500")
             /\ Lookup(Body(c), "temperature") = Num("0.7")
             /\ (calls[c].prompt = Str("Hi") /\ calls[c].context = EmptyObj) =>
                  JSONstringify(Body(c)) =
                    "{\"model\":\"gpt-3.5-turbo\",\"messages\":[{\"role\":\"user\",\"content\":\"Hi\"}],\"max_tokens\":500,\"temperature\":0.7}"
        [] Kind = "anthropic" ->
             /\ KeySet(Body(c)) =
                  {"model", "prompt", "max_tokens_to_sample", "temperature"}
             /\ Lookup(Body(c), "model") = Str("claude-2")
             /\ Lookup(Body(c), "max_tokens_to_sample") = Num("500")
             /\ Lookup(Body(c), "temperature") = Num("0.7")
        [] OTHER -> KeySet(Body(c)) = {"prompt", "context"}

\* An openai call query("Hi", {}, {}) has posted its payload.
C3_Witness ==
  \E c \in Callers :
    /\ Posted(c) /\ Kind = "openai"
    /\ calls[c].prompt = Str("Hi")
    /\ calls[c].context = EmptyObj
    /\ calls[c].options = EmptyObj
    /\ Lookup(Body(c), "model") = Str("gpt-3.5-turbo")

\* The context inclusion rule of one posted call.
ContextRule(c) ==
  LET ctx == calls[c].context
      json == Str(JSONstringify(ctx))
      user == Obj(<< <<"role", Str("user")>>, <<"content", calls[c].prompt>> >>)
      system == Obj(<< <<"role", Str("system")>>, <<"content", json>> >>)
  IN CASE Kind = "mistral" ->
            /\ Has(Body(c), "context") <=> NonEmpty(ctx)
            /\ NonEmpty(ctx) => Lookup(Body(c), "context") = json
       [] Kind = "openai" ->
            Lookup(Body(c), "messages") =
              Arr(IF NonEmpty(ctx) THEN <<system, user>> ELSE <<user>>)
       [] Kind = "anthropic" ->
            Lookup(Body(c), "prompt") =
              Str((IF NonEmpty(ctx) THEN Val(json) \o "\n\n" ELSE "")
                  \o "Human: " \o Val(calls[c].prompt) \o "\n\nAssistant:")
       [] OTHER ->
            Has(Body(c), "context") /\ Lookup(Body(c), "context") = ctx

\* The payload field that carries the context for the kind.
ContextField(kind) ==
  CASE kind = "openai" -> "messages"
    [] kind = "anthropic" -> "prompt"
    [] OTHER -> "context"

\* C4 as stated: the context inclusion rule holds for every kind and every
\* context, whatever the other arguments of the call.
C4_ContextRuleEveryCall == \A c \in Callers : Posted(c) => ContextRule(c)

\* C4 as amended: the context inclusion rule holds for every kind and every
\* context when options does not itself set the field that carries the
\* context (context for mistral and generic, messages for openai, prompt for
\* anthropic); query("Hi", {lang:"en"}, {}) under anthropic posts the prompt
\* '{"lang":"en"}\n\nHuman: Hi\n\nAssistant:'.
C4_ContextRule ==
  \A c \in Callers :
    (Posted(c) /\ ~Has(calls[c].options, ContextField(Kind))) =>
      /\ ContextRule(c)
      /\ (/\ Kind = "anthropic"
          /\ calls[c].prompt = Str("Hi")
          /\ calls[c].context = Obj(<< <<"lang", Str("en")>> >>)) =>
           Lookup(Body(c), "prompt") =
             Str("{\"lang\":\"en\"}\n\nHuman: Hi\n\nAssistant:")

\* query("Hi", {lang:"en"}, {}) under anthropic has posted its payload.
C4_Witness ==
  \E c \in Callers :
    /\ Posted(c) /\ Kind = "anthropic"
    /\ calls[c].prompt = Str("Hi")
    /\ calls[c].context = Obj(<< <<"lang", Str("en")>> >>)
    /\ calls[c].options = EmptyObj
    /\ Tag(Lookup(Body(c), "prompt")) = "string"

\* The call received a 2xx response / the data of that response.
Resolved(c) == calls[c].response[1] = "resolved"
Rejected(c) == calls[c].response[1] = "rejected"
Data(c) == calls[c].response[2]
Completion(c) == Lookup(calls[c].result, "completion")

\* C5: a configured kind outside {mistral, openai, anthropic, generic} never
\* makes query fail: the call posts the generic payload
\* {prompt, context, ...options} and its outcome is the one of the generic
\* extraction chain, exactly as if the kind were "generic".
C5_UnknownKindIsGeneric ==
  \A c \in Callers :
    (Posted(c) /\ Kind \notin KnownKinds) =>
      LET p == calls[c].prompt
          ctx == calls[c].context
          o == calls[c].options
          asGeneric == StartQuery(IdleCall, Str("generic"), p, ctx, o)
      IN /\ calls[c].attempts = 1
         /\ calls[c].request = asGeneric.request
         /\ KeySet(Body(c)) = {"prompt", "context"} \cup KeySet(o)
         /\ \A k \in KeySet(o) : Lookup(Body(c), k) = Lookup(o, k)
         /\ ~Has(o, "prompt") => Lookup(Body(c), "prompt") = p
         /\ ~Has(o, "context") => Lookup(Body(c), "context") = ctx
         /\ calls[c].pc = "failed" => (Resolved(c) \/ Rejected(c))
         /\ Resolved(c) =>
              calls[c] = FinishQuery(asGeneric, Str("generic"), Data(c))

\* Under the configured kind "llama" a call returned the completion "R".
C5_Witness ==
  \E c \in Callers :
    /\ MODEL_TYPE = Str("llama")
    /\ calls[c].pc = "done"
    /\ Completion(c) = Str("R")

\* Candidates of the extraction chains, read without failing: a missing
\* field, list element or message is an absent candidate.
FirstChoice(data) ==
  LET choices == Lookup(data, "choices")
  IN IF Tag(choices) = "array" /\ Val(choices) # <<>>
     THEN Val(choices)[1] ELSE Undefined
ChoiceField(data, k) ==
  IF Tag(FirstChoice(data)) = "object"
  THEN Lookup(FirstChoice(data), k) ELSE Undefined
MessageContent(data) ==
  IF Tag(ChoiceField(data, "message")) = "object"
  THEN Lookup(ChoiceField(data, "message"), "content") ELSE Undefined

Candidates(kind, data) ==
  CASE kind = "mistral" ->
         <<Lookup(data, "response"), Lookup(data, "completion"),
           Lookup(data, "output")>>
    [] kind = "openai" -> <<MessageContent(data)>>
    [] kind = "anthropic" -> <<Lookup(data, "completion")>>
    [] OTHER ->
         <<Lookup(data, "response"), Lookup(data, "completion"),
           MessageContent(data), ChoiceField(data, "text"),
           Lookup(data, "output")>>

RECURSIVE FirstNonEmpty(_, _)
FirstNonEmpty(candidates, fallback) ==
  IF candidates = <<>> THEN fallback
  ELSE IF Truthy(Head(candidates)) THEN Head(candidates)
       ELSE FirstNonEmpty(Tail(candidates), fallback)

\* C6: extraction follows the fixed per-kind order and the first non-empty
\* candidate wins: mistral response, completion, output; generic response,
\* completion, choices[0].message.content, choices[0].text, output, else the
\* serialized full response body.
C6_ExtractionOrder ==
  \A c \in Callers :
    (Resolved(c) /\ Kind \notin {"openai", "anthropic"}) =>
      /\ calls[c].pc = "done"
      /\ Completion(c) =
           FirstNonEmpty(Candidates(Kind, Data(c)),
                         IF Kind = "mistral" THEN Str("")
                         ELSE Str(JSONstringify(Data(c))))

\* C7: for mistral, openai and anthropic a 2xx response in which none of the
\* kind's candidates is present and non-empty makes query return the empty
\* string as completion, never a failure.
C7_NoCandidateYieldsEmpty ==
  \A c \in Callers :
    (/\ Resolved(c) /\ Kind \in KnownKinds
     /\ \A i \in 1..Len(Candidates(Kind, Data(c))) :
          ~Truthy(Candidates(Kind, Data(c))[i])) =>
      /\ calls[c].pc = "done"
      /\ Completion(c) = Str("")

\* C8: when the outbound call fails, query ends with ModelQueryFailed whose
\* message contains the underlying error's message and returns no
\* completion; no call both fails and returns a result.
C8_FailureIsModelQueryFailed ==
  \A c \in Callers :
    /\ Rejected(c) =>
         /\ calls[c].pc = "failed"
         /\ Tag(calls[c].error) = "string"
         /\ Includes(Val(calls[c].error), Val(Data(c)))
    /\ calls[c].pc = "failed" =>
         /\ calls[c].result = Undefined
         /\ Tag(calls[c].error) = "string"
         /\ SubSeq(Val(calls[c].error), 1, 18) = "Model query failed"
    /\ calls[c].pc = "done" => calls[c].error = Undefined
    /\ ~(calls[c].result # Undefined /\ calls[c].error # Undefined)

\* A call whose request got a non-2xx response has failed.
C8_Witness ==
  \E c \in Callers :
    /\ Rejected(c)
    /\ Data(c) = Str("Request failed with status code 500")
    /\ calls[c].pc = "failed"

\* C9: every call of query issues exactly one POST to the configured
\* endpoint, whether it succeeds or fails: N calls produce N requests.
C9_OneRequestPerCall ==
  /\ posts = invoked
  /\ returned + thrown + Cardinality({c \in Callers : Posted(c)}) = invoked
  /\ \A c \in Callers :
       /\ ~Posted(c) => calls[c].attempts = 0
       /\ Posted(c) =>
            /\ calls[c].attempts = 1
            /\ Lookup(calls[c].request, "method") = Str("POST")
            /\ Lookup(calls[c].request, "url") = Str(MODEL_ENDPOINT)

\* Two calls have ended, one returned and one failed, with two requests.
C9_Witness == returned = 1 /\ thrown = 1 /\ posts = 2

-----------------------------------------------------------------------------
(* Properties of mergeContexts *)

MergedData == Lookup(merged.result, "data")
\* The data object of the i-th input context, {} when it has none.
InputData(i) ==
  IF Has(merged.contexts[i], "data")
  THEN Lookup(merged.contexts[i], "data") ELSE EmptyObj
\* The inputs that hold key k.
Holders(k) == {i \in 1..Len(merged.contexts) : Has(InputData(i), k)}
Last(S) == CHOOSE i \in S : \A j \in S : j <= i

\* Left-to-right shallow fold, later wins: the keys of the result are the
\* keys of the inputs, each with the whole value of the last input that
\* holds it; [{a:1,b:2}, {b:3,c:4}] gives {a:1,b:3,c:4}.
IsShallowFold ==
  /\ KeySet(merged.result) = {"data"}
  /\ KeySet(MergedData) =
       UNION {KeySet(InputData(i)) : i \in 1..Len(merged.contexts)}
  /\ \A k \in KeySet(MergedData) :
       Lookup(MergedData, k) = Lookup(InputData(Last(Holders(k))), k)
  /\ (/\ Len(merged.contexts) = 2
      /\ InputData(1) = Obj(<< <<"a", Num("1")>>, <<"b", Num("2")>> >>)
      /\ InputData(2) = Obj(<< <<"b", Num("3")>>, <<"c", Num("4")>> >>)) =>
       MergedData = Obj(<< <<"a", Num("1")>>, <<"b", Num("3")>>,
                           <<"c", Num("4")>> >>)

\* C10 as stated: a structural merge returns the left-to-right shallow fold
\* of the input data objects and its output carries no sources or timestamp
\* field.
C10_StructuralMergeNoMetadataField ==
  merged.pc = "done" =>
    /\ IsShallowFold
    /\ ~Has(MergedData, "sources")
    /\ ~Has(MergedData, "timestamp")

\* C10 as amended: a structural merge returns the left-to-right shallow fold
\* of the input data objects, and the merge adds no sources or timestamp
\* field: the output carries one only when an input data object holds that
\* key, and then with that input's value.
C10_StructuralMerge ==
  merged.pc = "done" =>
    /\ IsShallowFold
    /\ \A k \in {"sources", "timestamp"} :
         Has(MergedData, k) =>
           /\ Holders(k) # {}
           /\ Lookup(MergedData, k) = Lookup(InputData(Last(Holders(k))), k)

\* The merge of [{a:1,b:2}, {b:3,c:4}] has returned, b holding 3.
C10_Witness ==
  /\ merged.pc = "done"
  /\ Len(merged.contexts) = 2
  /\ InputData(1) = Obj(<< <<"a", Num("1")>>, <<"b", Num("2")>> >>)
  /\ InputData(2) = Obj(<< <<"b", Num("3")>>, <<"c", Num("4")>> >>)
  /\ Lookup(MergedData, "b") = Num("3")

-----------------------------------------------------------------------------
(* Properties of the operations built on queryModel *)

\* The one query slot of the operations' specification.
Slot == CHOOSE c \in Callers : TRUE
\* What the operation passed to queryModel.
QueryPrompt == Val(calls[Slot].prompt)
MergeOperation == op.name = "mergeContexts" /\ op.pc # "idle"
ModelAssisted == Truthy(GetProp(op.options, "useModel"))

\* The JSON texts of the inputs' data (the whole context when it has no
\* data), in input order, separated by commas.
RECURSIVE JoinedData(_)
JoinedData(contexts) ==
  IF contexts = <<>> THEN ""
  ELSE LET ctx == Head(contexts)
           text == JSONstringify(IF Has(ctx, "data") THEN Lookup(ctx, "data")
                                 ELSE ctx)
       IN IF Len(contexts) = 1 THEN text
          ELSE text \o "," \o JoinedData(Tail(contexts))

\* C11: a model-assisted merge (options.useModel truthy) issues exactly one
\* outbound request for the whole input list, whatever its length, and the
\* prompt of that request embeds the data of every input context in input
\* order; a merge with useModel falsy issues no outbound request.
C11_ModelMergeOneCall ==
  /\ posts = invoked
  /\ MergeOperation =>
       IF ModelAssisted
       THEN /\ Posted(Slot)
            /\ calls[Slot].attempts = 1
            /\ QueryPrompt =
                 "Task: Merge the following contexts into a single coherent context."
                   \o "\nContexts: [" \o JoinedData(op.contexts) \o "]"
            /\ calls[Slot].request =
                 PostRequest(QueryPayload(MODEL_TYPE, calls[Slot].prompt,
                                          EmptyObj, op.options))
            /\ \A i \in 1..Len(op.contexts) :
                 Has(op.contexts[i], "data") =>
                   Includes(QueryPrompt,
                            JSONstringify(Lookup(op.contexts[i], "data")))
       ELSE /\ ~Posted(Slot)
            /\ calls[Slot].attempts = 0

\* A model-assisted merge of three different contexts has returned.
C11_Witness ==
  /\ MergeOperation
  /\ ModelAssisted
  /\ op.pc = "done"
  /\ Len(op.contexts) = 3
  /\ Cardinality({op.contexts[i] : i \in 1..3}) = 3
  /\ posts = 1

\* The failure kind of each operation, by the start of its message.
OwnFailure ==
  CASE op.name = "processContext" -> "Context processing failed: "
    [] op.name = "mergeContexts" -> "Context merge failed: "
    [] op.name = "summarizeContext" -> "Context summarization failed: "
\* The message of the error the transport rejected the request with.
TransportMessage == Val(Data(Slot))

\* C12: when the outbound call fails inside processContext, a
\* model-assisted mergeContexts or summarizeContext, the caller gets that
\* operation's own failure kind, never the raw transport error and never a
\* bare ModelQueryFailed, and its message holds the inner ModelQueryFailed
\* message, hence the original error message.
C12_OperationFailureWrapsQueryFailure ==
  (op.pc \in {"done", "failed"} /\ Rejected(Slot)) =>
    /\ op.pc = "failed"
    /\ op.result = Undefined
    /\ Val(op.error) =
         OwnFailure \o "Model query failed: " \o TransportMessage
    /\ Includes(Val(op.error), Val(calls[Slot].error))
    /\ Includes(Val(op.error), TransportMessage)
    /\ op.error # calls[Slot].error
    /\ op.error # Data(Slot)

\* A model-assisted merge has failed on a rejected request.
C12_Witness ==
  /\ op.pc = "failed"
  /\ Rejected(Slot)
  /\ MergeOperation
  /\ ModelAssisted
  /\ Len(op.contexts) = 2

\* What processContext(context, "Summarize the following context.",
\* options) posts, and what it returns for the response the summary got.
AsProcessContext ==
  StartQuery(IdleCall, MODEL_TYPE,
             ProcessPrompt(op.contexts[1],
                           Str("Summarize the following context.")),
             EmptyObj, op.options)
AsProcessContextResult ==
  ProcessResult(op.contexts[1], Str("Summarize the following context."),
                Lookup(FinishQuery(AsProcessContext, MODEL_TYPE,
                                   Data(Slot)).result, "completion"))

\* C14: summarizeContext(context, options) behaves as
\* processContext(context, "Summarize the following context.", options):
\* it posts the same single request (prompt "Task: <task>\nContext:
\* <serialized context data>", empty structured context, same options), and
\* its summary equals the processed completion for the same response.
C14_SummarizeIsProcessWithFixedTask ==
  (op.name = "summarizeContext" /\ op.pc # "idle") =>
    /\ calls[Slot].attempts = 1
    /\ calls[Slot].request = AsProcessContext.request
    /\ calls[Slot].context = EmptyObj
    /\ calls[Slot].options = op.options
    /\ QueryPrompt =
         "Task: Summarize the following context.\nContext: "
           \o JSONstringify(IF Has(op.contexts[1], "data")
                            THEN Lookup(op.contexts[1], "data")
                            ELSE op.contexts[1])
    /\ op.pc = "done" =>
         /\ Resolved(Slot)
         /\ Lookup(Lookup(op.result, "data"), "summary") =
              Lookup(Lookup(AsProcessContextResult, "data"), "processed")
         /\ Lookup(Lookup(op.result, "data"), "original") =
              Lookup(Lookup(AsProcessContextResult, "data"), "original")
    /\ op.pc = "failed" =>
         FinishQuery(AsProcessContext, MODEL_TYPE, Data(Slot)).pc = "failed"
           \/ Rejected(Slot)

\* A summary holding a non-empty completion has returned.
C14_Witness ==
  /\ op.name = "summarizeContext"
  /\ op.pc = "done"
  /\ Has(op.contexts[1], "data")
  /\ Tag(Lookup(Lookup(op.result, "data"), "summary")) = "string"
  /\ Val(Lookup(Lookup(op.result, "data"), "summary")) # ""

-----------------------------------------------------------------------------
(* Properties of concurrent query calls *)

\* The call's request and outcome as its own arguments, the process-wide
\* configuration and the response to its own request determine them.
OwnRequest(c) ==
  PostRequest(QueryPayload(MODEL_TYPE, calls[c].prompt, calls[c].context,
                           calls[c].options))
OwnOutcome(c) ==
  IF Rejected(c) THEN Throw("Model query failed: " \o Val(Data(c)))
  ELSE LET completion == ExtractCompletion(MODEL_TYPE, Data(c))
       IN IF IsThrow(completion)
          THEN Throw("Model query failed: " \o Val(completion))
          ELSE Obj(<< <<"completion", completion>> >>)
Isolated(c) ==
  /\ Posted(c) => calls[c].request = OwnRequest(c)
  /\ calls[c].pc = "done" => calls[c].result = OwnOutcome(c)
  /\ calls[c].pc = "failed" => Throw(Val(calls[c].error)) = OwnOutcome(c)
\* A step is a step of one call, and leaves the configuration as it is.
OneCallSteps ==
  /\ MODEL_TYPE' = MODEL_TYPE
  /\ API_KEY' = API_KEY
  /\ \A c, d \in DOMAIN calls :
       (c # d /\ calls'[c] # calls[c]) => calls'[d] = calls[d]

\* C15: under every interleaving of two or more query calls in flight, each
\* call's payload is built only from its own arguments and the process-wide
\* configuration, each call's result is derived only from the response to
\* its own request, and no call changes the configuration (endpoint, API
\* key, provider kind).
C15_ConcurrentCallsIsolated ==
  /\ [](\A c \in DOMAIN calls : Isolated(c))
  /\ [][OneCallSteps]_vars

\* One call has its completion while the other, made with another prompt,
\* still awaits its response.
C15_Witness ==
  /\ DOMAIN calls = ConcurrentCallers
  /\ calls["caller1"].pc = "done"
  /\ calls["caller2"].pc = "awaiting"
  /\ calls["caller1"].prompt # calls["caller2"].prompt
  /\ Truthy(Completion("caller1"))

-----------------------------------------------------------------------------
(* Properties of the context store *)

\* The database as the next operation would load it.
StoredDb == LoadContextDb(file)
StoredSession(s) == Lookup(Sessions(StoredDb), s)
StoredContext(c) == Lookup(StoredOf(StoredDb), c)
\* The identifiers a session lists.
Listed(s) ==
  LET list == Lookup(StoredSession(s), "contexts")
  IN IF Tag(list) = "array" THEN {Val(list[2][i]) : i \in 1..Len(Val(list))}
     ELSE {}

\* C18: after any sequence of store operations run one after the other the
\* store is referentially consistent in both directions: every identifier
\* in a session's contexts list refers to a stored context whose sessionId
\* is that session, and every stored context belongs to an existing session
\* that lists its identifier.
C18_ReferentiallyConsistent ==
  /\ \A s \in KeySet(Sessions(StoredDb)) :
       \A c \in Listed(s) :
         /\ Has(StoredOf(StoredDb), c)
         /\ Lookup(StoredContext(c), "sessionId") = Str(s)
  /\ \A c \in KeySet(StoredOf(StoredDb)) :
       LET s == Val(Lookup(StoredContext(c), "sessionId"))
       IN /\ Has(Sessions(StoredDb), s)
          /\ c \in Listed(s)

\* C19: under every interleaving of the store operations of concurrent
\* requests no acknowledged write is lost: a context a successful
\* createContext returned stays stored and listed in its session until a
\* deleteContext of it succeeds, and what a successful updateContext or
\* updateSession wrote is not undone by another request's save.
C19_NoAcknowledgedWriteLost ==
  /\ \A c \in acknowledged.created :
       /\ Has(StoredOf(StoredDb), c)
       /\ LET s == Val(Lookup(StoredContext(c), "sessionId"))
          IN Has(Sessions(StoredDb), s) /\ c \in Listed(s)
  /\ \A c \in acknowledged.contexts :
       /\ Has(StoredOf(StoredDb), c)
       /\ \A u \in ContextUpdates :
            \A k \in KeySet(Lookup(u, "data")) :
              Lookup(Lookup(StoredContext(c), "data"), k) =
                Lookup(Lookup(u, "data"), k)
  /\ \A s \in acknowledged.sessions :
       /\ Has(Sessions(StoredDb), s)
       /\ \E u \in SessionUpdates :
            /\ Has(u, "metadata")
            /\ Lookup(StoredSession(s), "metadata") = Lookup(u, "metadata")

-----------------------------------------------------------------------------
(* Properties of the HTTP server *)

Route == req.request.route
Field(k) == Lookup(req.request.body, k)
Responded == req.pc = "responded"
\* The database as it was when the request arrived.
DbBefore == LoadContextDb(req.before)
\* Nothing of the request went past the middleware.
Untouched ==
  /\ ~req.reached
  /\ req.reads = 0
  /\ req.writes = 0
  /\ req.queries = 0
  /\ file = req.before
  /\ calls[Slot] = IdleCall
  /\ op = NoOp
BearerOf(key) == Str("Bearer " \o Val(key))

\* C13: no partial result: when the outbound call fails during a
\* model-assisted mergeContexts the operation fails with ContextMergeFailed
\* and returns no data, without falling back to the structural merge; and
\* the merge and summarize routes store no new context in the session when
\* their operation failed.
C13_NoPartialResult ==
  /\ (/\ MergeOperation
      /\ ModelAssisted
      /\ op.pc \in {"done", "failed"}
      /\ calls[Slot].pc = "failed") =>
       /\ op.pc = "failed"
       /\ op.result = Undefined
       /\ StartsWith(Val(op.error), "Context merge failed: ")
  /\ (/\ Responded
      /\ Route \in {"POST /api/context/merge",
                    "POST /api/context/:contextId/summarize"}
      /\ op.pc = "failed") =>
       /\ file = req.before
       /\ req.writes = 0
       /\ req.status \notin {200, 201}
       /\ KeySet(req.response) = {"error"}

\* The merge route has answered a model-assisted merge into session s1,
\* which exists, after the model's endpoint rejected the request.
C13_Witness ==
  /\ Responded
  /\ Route = "POST /api/context/merge"
  /\ MergeOperation
  /\ ModelAssisted
  /\ op.pc = "failed"
  /\ Rejected(Slot)
  /\ Truthy(Field("sessionId"))
  /\ Has(Sessions(StoredDb), Val(Field("sessionId")))
  /\ req.status = 500

QueryRoute == Route = "POST /api/model/query" /\ req.reached
\* The validation of the query handler, on the database the request found.
PromptGiven == Truthy(Field("prompt"))
ContextMissing ==
  /\ Truthy(Field("contextId"))
  /\ ~Has(StoredOf(DbBefore), Val(Field("contextId")))

\* C17: for POST /api/model/query the model is called at most once per
\* request and only after validation succeeded: a request without prompt is
\* answered 400 and one whose contextId is not in the store 404, both
\* without outbound call and without store write; and when sessionId is
\* given, a response carrying a completion implies that a new context
\* holding the prompt and that completion was stored in that session.
C17_QueryRoute ==
  QueryRoute =>
    /\ req.queries <= 1
    /\ calls[Slot].attempts = req.queries
    /\ req.queries = 1 => (PromptGiven /\ ~ContextMissing)
    /\ (Responded /\ ~PromptGiven) =>
         req.status = 400 /\ req.queries = 0 /\ req.writes = 0
           /\ file = req.before
    /\ (Responded /\ PromptGiven /\ ContextMissing) =>
         req.status = 404 /\ req.queries = 0 /\ req.writes = 0
           /\ file = req.before
    /\ (Responded /\ Truthy(Field("sessionId"))
          /\ Has(req.response, "completion")) =>
         LET context == Lookup(req.response, "context")
             id == Val(Lookup(context, "id"))
             s == Val(Field("sessionId"))
         IN /\ ~Has(StoredOf(DbBefore), id)
            /\ StoredContext(id) = context
            /\ Lookup(context, "sessionId") = Field("sessionId")
            /\ id \in Listed(s)
            /\ Lookup(Lookup(context, "data"), "prompt") = Field("prompt")
            /\ Lookup(Lookup(context, "data"), "response") =
                 Lookup(req.response, "completion")
            /\ Lookup(req.response, "completion") = Completion(Slot)

\* A query about a stored context, asked within session s1, has been
\* answered with a non-empty completion.
C17_Witness ==
  /\ QueryRoute
  /\ Responded
  /\ req.status = 200
  /\ Truthy(Field("contextId"))
  /\ Truthy(Field("sessionId"))
  /\ Truthy(Lookup(req.response, "completion"))

====
